---- MODULE Spec2Model ----
(***************************************************************************)
(* Model of the Gemini service layer of Aice PS (src/unnamed/part_000):    *)
(* the module-level client cache, image preparation, the request builders, *)
(* response interpretation in callImageEditingModel, handleApiError and    *)
(* the text-refusal fallback of the filter/style/adjustment/texture and    *)
(* decade operations.                                                      *)
(*                                                                         *)
(* JavaScript strings are sequences of text chunks.  A chunk is either one *)
(* character (prompts, keys, URLs) or one literal of the source that the   *)
(* code only ever tests or copies as a whole; String.includes is the       *)
(* contiguous-subsequence test on chunks.                                  *)
(***************************************************************************)
EXTENDS Integers, Sequences, FiniteSets, TLC

VARIABLES
    \* module-level client cache (part_000 lines 8-10)
    aiInstance, lastUsedApiKey, lastUsedBaseUrl,
    \* configuration sources read by getApiKey / getBaseUrl
    lsApiKey, lsBaseUrl, envApiKey,
    \* the operation in flight
    pc, op, opArg, prompt, imageFile, imagePart, srcFiles, srcParts, heldAi,
    calls, replies, result,
    \* a raw service reply under interpretation and what the call made of it
    rawReply, actionLabel, interp,
    \* concurrent callers of the client, each at one of its awaits, and the
    \* outcome of the most recent getGoogleAI call
    callers, lastAttempt,
    \* an image under normalization: the file, what the host does with it
    \* and what resizeImageForApi made of it
    norm,
    \* the fusion panel: its three uploader slots, its prompt, the message
    \* handed to onError and the slots as they were when fusion was applied
    panel

cacheVars == <<aiInstance, lastUsedApiKey, lastUsedBaseUrl>>
configVars == <<lsApiKey, lsBaseUrl, envApiKey>>
opVars ==
    <<pc, op, opArg, prompt, imageFile, imagePart, srcFiles, srcParts, heldAi,
      calls, replies, result>>
interpVars == <<rawReply, actionLabel, interp>>
clientVars == <<callers, lastAttempt>>
normVars == <<norm>>
panelVars == <<panel>>
vars == <<cacheVars, configVars, opVars, interpVars, clientVars, normVars, panelVars>>

----------------------------------------------------------------------------
(* JavaScript values                                                       *)

JsNull == [t |-> "null", v |-> <<>>]
JsUndefined == [t |-> "undefined", v |-> <<>>]
JsStr(s) == [t |-> "string", v |-> s]

\* truthiness of a string-or-nullish value: a non-empty string
Truthy(x) == x.t = "string" /\ x.v # <<>>

\* String.prototype.includes on chunk sequences
Includes(s, sub) ==
    \E i \in 0..(Len(s) - Len(sub)) : SubSeq(s, i + 1, i + Len(sub)) = sub

\* String(x): the text JavaScript gives a string-or-nullish value
ToStr(x) ==
    IF x.t = "string" THEN x.v
    ELSE IF x.t = "null" THEN <<"null">> ELSE <<"undefined">>

IsSpace(c) == c = " "

RECURSIVE TrimLeft(_)
TrimLeft(s) == IF s # <<>> /\ IsSpace(Head(s)) THEN TrimLeft(Tail(s)) ELSE s

RECURSIVE TrimRight(_)
TrimRight(s) ==
    IF s # <<>> /\ IsSpace(s[Len(s)]) THEN TrimRight(SubSeq(s, 1, Len(s) - 1)) ELSE s

\* String.prototype.trim
Trim(s) == TrimRight(TrimLeft(s))

\* a thrown value: an Error (or not) and its .message
ErrorOf(msg) == [isError |-> TRUE, message |-> JsStr(msg)]

----------------------------------------------------------------------------
(* Configuration and the cached client: getApiKey, getBaseUrl, getGoogleAI *)

\* a variant of getApiKey without the trim test of line 17
getApiKeyUntrimmed(ls, env) ==
    IF Truthy(ls) THEN ls
    ELSE IF Truthy(env) THEN env ELSE [t |-> "null", v |-> <<>>]

\* getApiKey, lines 13-25; ls is localStorage's value (JsNull when absent
\* or when localStorage throws), env is process.env.API_KEY
getApiKey(ls, env) ==
    IF Truthy(ls) /\ Trim(ls.v) # <<>> THEN ls
    ELSE IF Truthy(env) THEN env ELSE JsNull

\* getBaseUrl, lines 28-38
getBaseUrl(ls) ==
    IF Truthy(ls) /\ Trim(ls.v) # <<>> THEN JsStr(Trim(ls.v)) ELSE JsUndefined

NoInstance == [made |-> FALSE, apiKey |-> JsNull, apiEndpoint |-> JsUndefined]

\* new GoogleGenAI(config), lines 52-56: apiEndpoint is set only for a
\* truthy baseUrl
NewGoogleGenAI(apiKey, baseUrl) ==
    [made |-> TRUE, apiKey |-> apiKey,
     apiEndpoint |-> IF Truthy(baseUrl) THEN baseUrl ELSE JsUndefined]

MsgNoKey == <<"API key not found. Please enter your key in settings, or ensure the system API key is properly configured in the environment.">>
MsgInitFailed == <<"Failed to initialize AI service: ">>
MsgCtor == <<"constructor failed">>

\* a variant of getGoogleAI that invalidates the cache when no key is found
getGoogleAIForgetful(inst, lastKey, lastUrl, ls, lsUrl, env, ctorOk) ==
    LET apiKey == getApiKey(ls, env)
        baseUrl == getBaseUrl(lsUrl)
        same == [ok |-> TRUE, thrown |-> ErrorOf(<<>>), ai |-> inst, built |-> FALSE,
                 inst |-> inst, lastKey |-> lastKey, lastUrl |-> lastUrl]
    IN  IF ~Truthy(apiKey)
        THEN [same EXCEPT !.ok = FALSE, !.thrown = ErrorOf(MsgNoKey), !.ai = NoInstance,
                          !.inst = NoInstance, !.lastKey = JsNull, !.lastUrl = JsNull]
        ELSE IF ~inst.made \/ apiKey # lastKey \/ baseUrl # lastUrl
        THEN IF ctorOk
             THEN [same EXCEPT !.ai = NewGoogleGenAI(apiKey, baseUrl), !.built = TRUE,
                               !.inst = NewGoogleGenAI(apiKey, baseUrl),
                               !.lastKey = apiKey, !.lastUrl = baseUrl]
             ELSE [same EXCEPT !.ok = FALSE,
                               !.thrown = ErrorOf(MsgInitFailed \o MsgCtor),
                               !.ai = NoInstance, !.inst = NoInstance,
                               !.lastKey = JsNull, !.lastUrl = JsNull]
        ELSE same

\* a variant of getGoogleAI that rebuilds only when the key changed
getGoogleAIKeyOnly(inst, lastKey, lastUrl, ls, lsUrl, env, ctorOk) ==
    LET apiKey == getApiKey(ls, env)
        baseUrl == getBaseUrl(lsUrl)
        same == [ok |-> TRUE, thrown |-> ErrorOf(<<>>), ai |-> inst, built |-> FALSE,
                 inst |-> inst, lastKey |-> lastKey, lastUrl |-> lastUrl]
    IN  IF ~Truthy(apiKey)
        THEN [same EXCEPT !.ok = FALSE, !.thrown = ErrorOf(MsgNoKey), !.ai = NoInstance]
        ELSE IF ~inst.made \/ apiKey # lastKey
        THEN IF ctorOk
             THEN [same EXCEPT !.ai = NewGoogleGenAI(apiKey, baseUrl), !.built = TRUE,
                               !.inst = NewGoogleGenAI(apiKey, baseUrl),
                               !.lastKey = apiKey, !.lastUrl = baseUrl]
             ELSE [same EXCEPT !.ok = FALSE,
                               !.thrown = ErrorOf(MsgInitFailed \o MsgCtor),
                               !.ai = NoInstance, !.inst = NoInstance,
                               !.lastKey = JsNull, !.lastUrl = JsNull]
        ELSE same

\* a variant of getGoogleAI without the invalidation of lines 61-63
getGoogleAIKeepsOnFailure(inst, lastKey, lastUrl, ls, lsUrl, env, ctorOk) ==
    LET apiKey == getApiKey(ls, env)
        baseUrl == getBaseUrl(lsUrl)
        same == [ok |-> TRUE, thrown |-> ErrorOf(<<>>), ai |-> inst, built |-> FALSE,
                 inst |-> inst, lastKey |-> lastKey, lastUrl |-> lastUrl]
    IN  IF ~Truthy(apiKey)
        THEN [same EXCEPT !.ok = FALSE, !.thrown = ErrorOf(MsgNoKey), !.ai = NoInstance]
        ELSE IF ~inst.made \/ apiKey # lastKey \/ baseUrl # lastUrl
        THEN IF ctorOk
             THEN [same EXCEPT !.ai = NewGoogleGenAI(apiKey, baseUrl), !.built = TRUE,
                               !.inst = NewGoogleGenAI(apiKey, baseUrl),
                               !.lastKey = apiKey, !.lastUrl = baseUrl]
             ELSE [same EXCEPT !.ok = FALSE,
                               !.thrown = ErrorOf(MsgInitFailed \o MsgCtor),
                               !.ai = NoInstance]
        ELSE same

\* a variant of getGoogleAI that does not record the base URL (line 58)
getGoogleAIPartial(inst, lastKey, lastUrl, ls, lsUrl, env, ctorOk) ==
    LET apiKey == getApiKey(ls, env)
        baseUrl == getBaseUrl(lsUrl)
        same == [ok |-> TRUE, thrown |-> ErrorOf(<<>>), ai |-> inst, built |-> FALSE,
                 inst |-> inst, lastKey |-> lastKey, lastUrl |-> lastUrl]
    IN  IF ~Truthy(apiKey)
        THEN [same EXCEPT !.ok = FALSE, !.thrown = ErrorOf(MsgNoKey), !.ai = NoInstance]
        ELSE IF ~inst.made \/ apiKey # lastKey \/ baseUrl # lastUrl
        THEN IF ctorOk
             THEN [same EXCEPT !.ai = NewGoogleGenAI(apiKey, baseUrl), !.built = TRUE,
                               !.inst = NewGoogleGenAI(apiKey, baseUrl),
                               !.lastKey = apiKey]
             ELSE [same EXCEPT !.ok = FALSE,
                               !.thrown = ErrorOf(MsgInitFailed \o MsgCtor),
                               !.ai = NoInstance, !.inst = NoInstance,
                               !.lastKey = JsNull, !.lastUrl = JsNull]
        ELSE same

\* getGoogleAI, lines 42-69.  ctorOk is whether new GoogleGenAI succeeds
\* when it is called.  The result carries the cache as the call leaves it.
getGoogleAI(inst, lastKey, lastUrl, ls, lsUrl, env, ctorOk) ==
    LET apiKey == getApiKey(ls, env)
        baseUrl == getBaseUrl(lsUrl)
        same == [ok |-> TRUE, thrown |-> ErrorOf(<<>>), ai |-> inst, built |-> FALSE,
                 inst |-> inst, lastKey |-> lastKey, lastUrl |-> lastUrl]
    IN  IF ~Truthy(apiKey)
        THEN [same EXCEPT !.ok = FALSE, !.thrown = ErrorOf(MsgNoKey), !.ai = NoInstance]
        ELSE IF ~inst.made \/ apiKey # lastKey \/ baseUrl # lastUrl
        THEN IF ctorOk
             THEN [same EXCEPT !.ai = NewGoogleGenAI(apiKey, baseUrl), !.built = TRUE,
                               !.inst = NewGoogleGenAI(apiKey, baseUrl),
                               !.lastKey = apiKey, !.lastUrl = baseUrl]
             ELSE [same EXCEPT !.ok = FALSE,
                               !.thrown = ErrorOf(MsgInitFailed \o MsgCtor),
                               !.ai = NoInstance, !.inst = NoInstance,
                               !.lastKey = JsNull, !.lastUrl = JsNull]
        ELSE same

----------------------------------------------------------------------------
(* handleApiError                                                          *)

ErrPrefix == <<"Error occurred during \"">>
ErrSep == <<"\": ">>
MsgUnknownComm == <<"Unknown communication error">>
KeyNotValid == <<"API key not valid">>
XhrError == <<"xhr error">>
MsgKeyInvalid == <<"API key is invalid. Please check the key you entered in settings.">>
MsgNetwork == <<"Communication with AI service failed. This may be caused by network issues or an invalid API key.">>

\* JSON texts the service layer can meet: {"error":{"message":"<m>"}} is
\* JsonErrOpen, the chunks of m, JsonErrClose; {"message":"<m>"} is
\* JsonMsgOpen, the chunks of m, JsonMsgClose; "{}" is the empty object.
\* A chunk of JsonSyntax holds a double quote and cannot stand inside a
\* JSON string.  Everything else is not JSON.
JsonErrOpen == "{\"error\":{\"message\":\""
JsonErrClose == "\"}}"
JsonMsgOpen == "{\"message\":\""
JsonMsgClose == "\"}"
JsonOther == "{}"
JsonSyntax == {JsonErrOpen, JsonErrClose, JsonMsgOpen, JsonMsgClose}

IsJsonError(s) ==
    /\ Len(s) >= 2
    /\ s[1] = JsonErrOpen
    /\ s[Len(s)] = JsonErrClose
    /\ \A i \in 2..(Len(s) - 1) : s[i] \notin JsonSyntax

\* a JSON object without an error member
IsJsonMessage(s) ==
    /\ Len(s) >= 2
    /\ s[1] = JsonMsgOpen
    /\ s[Len(s)] = JsonMsgClose
    /\ \A i \in 2..(Len(s) - 1) : s[i] \notin JsonSyntax

\* JSON.parse(x) for a string-or-nullish x: parsed is FALSE when it throws,
\* errorMessage is errorObj?.error?.message
JsonParse(x) ==
    IF x.t = "string" /\ IsJsonError(x.v)
    THEN [parsed |-> TRUE, errorMessage |-> JsStr(SubSeq(x.v, 2, Len(x.v) - 1))]
    ELSE IF x.t = "string" /\ (x.v = <<JsonOther>> \/ IsJsonMessage(x.v))
    THEN [parsed |-> TRUE, errorMessage |-> JsUndefined]
    ELSE IF x.t = "null"
    THEN [parsed |-> TRUE, errorMessage |-> JsUndefined]
    ELSE [parsed |-> FALSE, errorMessage |-> JsUndefined]

\* handleApiError, lines 71-92: the message of the Error it returns
handleApiError(error, action) ==
    LET generic == ErrPrefix \o action \o ErrSep \o
                   (IF Truthy(error.message) THEN error.message.v ELSE MsgUnknownComm)
        json == JsonParse(error.message)
    IN  IF json.parsed
        THEN IF Truthy(json.errorMessage)
             THEN ErrPrefix \o action \o ErrSep \o json.errorMessage.v
             ELSE generic
        ELSE IF Includes(ToStr(error.message), KeyNotValid) THEN MsgKeyInvalid
        ELSE IF Includes(ToStr(error.message), XhrError) THEN MsgNetwork
        ELSE generic

----------------------------------------------------------------------------
(* Service replies: GenerateContentResponse, or a thrown value             *)

MaxParts == 3

ImageBlobs ==
    {[mimeType |-> <<"image/png">>, data |-> <<"d1">>],
     [mimeType |-> <<"image/jpeg">>, data |-> <<"d2">>]}
Texts == {<<>>, <<"t1">>, <<"t2">>}
FinishReasons == {JsUndefined, JsStr(<<"STOP">>), JsStr(<<"SAFETY">>)}

\* Part of a response: inlineData is <<>> when absent, else <<blob>>; text
\* is undefined when absent
NoInline == <<>>
ImagePartOf(m, d) == [inlineData |-> <<[mimeType |-> m, data |-> d]>>, text |-> JsUndefined]
TextPartOf(t) == [inlineData |-> NoInline, text |-> JsStr(t)]
OtherPart == [inlineData |-> NoInline, text |-> JsUndefined]

ResponseParts ==
    {ImagePartOf(b.mimeType, b.data) : b \in ImageBlobs}
        \cup {TextPartOf(t) : t \in Texts} \cup {OtherPart}

SeqsUpTo(S, n) == UNION {[1..k -> S] : k \in 0..n}

\* candidate.content: absent, present without parts, or present with parts
Contents ==
    {[present |-> FALSE, hasParts |-> FALSE, parts |-> <<>>],
     [present |-> TRUE, hasParts |-> FALSE, parts |-> <<>>]}
        \cup {[present |-> TRUE, hasParts |-> TRUE, parts |-> ps] :
                ps \in SeqsUpTo(ResponseParts, MaxParts)}

\* candidate.safetyRatings: absent, or the .blocked flag of each rating
SafetyRatings ==
    {[present |-> FALSE, blocked |-> <<>>]}
        \cup {[present |-> TRUE, blocked |-> b] :
                b \in {<<>>, <<FALSE>>, <<TRUE>>, <<FALSE, TRUE>>}}

Candidates ==
    [content : Contents, finishReason : FinishReasons, safetyRatings : SafetyRatings]

\* response.candidates?.[0] is all the code reads: candidates is <<>> or
\* <<first candidate>>
Responses == {[candidates |-> <<>>]} \cup {[candidates |-> <<c>>] : c \in Candidates}

ModelRespondedWithText == "Model responded with text"
InsteadOfAnImage == " instead of an image"
MsgRefusal ==
    <<ModelRespondedWithText, InsteadOfAnImage, ". The prompt may have been blocked.">>
DidNotReturnValid == "AI did not return a valid result"
MsgBlockedBySafety == <<" The prompt may have been blocked by safety filters.">>
\* line 226 (the message is in Chinese in the source; line 227 is unreachable)
MsgNoExpectedImage == <<"AI failed to return the expected image result. [zh]">>

JsonErr(m) == <<JsonErrOpen>> \o m \o <<JsonErrClose>>

\* values generateContent can reject with
ThrownValues ==
    {ErrorOf(m) : m \in
        {<<>>, <<"socket hang up">>, <<"fetch failed: ">> \o XhrError, KeyNotValid,
         <<ModelRespondedWithText>>, <<ModelRespondedWithText, InsteadOfAnImage>>,
         <<DidNotReturnValid>>,
         JsonErr(<<"quota exceeded">>), JsonErr(KeyNotValid), JsonErr(<<>>),
         JsonErr(<<ModelRespondedWithText, InsteadOfAnImage>>), <<JsonOther>>}}
        \cup {[isError |-> FALSE, message |-> JsUndefined],
              [isError |-> FALSE,
               message |-> JsStr(<<ModelRespondedWithText, InsteadOfAnImage>>)]}

NoResponse == [candidates |-> <<>>]
Responded(r) == [kind |-> "response", response |-> r, thrown |-> ErrorOf(<<>>)]
Threw(e) == [kind |-> "throw", response |-> NoResponse, thrown |-> e]

ServiceReplies == {Responded(r) : r \in Responses} \cup {Threw(e) : e \in ThrownValues}

----------------------------------------------------------------------------
(* callImageEditingModel after the await: lines 198-234                    *)

\* a variant of FirstInline that keeps the last part with inlineData
RECURSIVE LastInline(_, _)
LastInline(parts, i) ==
    IF i > Len(parts) THEN 0
    ELSE IF LastInline(parts, i + 1) # 0 THEN LastInline(parts, i + 1)
    ELSE IF parts[i].inlineData # NoInline THEN i
    ELSE 0

\* the first part with inlineData, 0 when there is none (the loop of
\* lines 215-219)
RECURSIVE FirstInline(_, _)
FirstInline(parts, i) ==
    IF i > Len(parts) THEN 0
    ELSE IF parts[i].inlineData # NoInline THEN i
    ELSE FirstInline(parts, i + 1)

DataUrl(blob) == <<"data:">> \o blob.mimeType \o <<";base64,">> \o blob.data

SomeBlocked(ratings) ==
    ratings.present /\ \E i \in 1..Len(ratings.blocked) : ratings.blocked[i]

\* a variant of InvalidResultMessage that leaves the safety ratings and the
\* finish reason out
InvalidResultMessageBare(c) == <<DidNotReturnValid, ".">>

\* lines 201-213, for a candidate that may be missing (c = <<>>)
InvalidResultMessage(c) ==
    LET finishReason == IF c = <<>> THEN JsUndefined ELSE c[1].finishReason
        blocked == c # <<>> /\ SomeBlocked(c[1].safetyRatings)
    IN  <<DidNotReturnValid, ".">>
            \o (IF Truthy(finishReason)
                THEN <<" Reason: ">> \o finishReason.v \o <<".">> ELSE <<>>)
            \o (IF blocked THEN MsgBlockedBySafety ELSE <<>>)

Returned(url) == [outcome |-> "Success", url |-> url, thrown |-> ErrorOf(<<>>)]
Thrown(o, msg) == [outcome |-> o, url |-> <<>>, thrown |-> ErrorOf(msg)]

\* a variant of InterpretResponse that looks for text in any part, before
\* it looks for an image, and puts the text in the error
InterpretTextFirst(response) ==
    LET c == response.candidates
    IN  IF c = <<>> \/ ~c[1].content.present \/ ~c[1].content.hasParts
               \/ Len(c[1].content.parts) = 0
        THEN Thrown("Malformed", InvalidResultMessage(c))
        ELSE LET parts == c[1].content.parts
                 k == FirstInline(parts, 1)
                 texts == {i \in 1..Len(parts) : Truthy(parts[i].text)}
             IN  IF texts # {}
                 THEN Thrown("Refusal",
                             MsgRefusal \o parts[CHOOSE i \in texts : TRUE].text.v)
                 ELSE IF k # 0 THEN Returned(DataUrl(parts[k].inlineData[1]))
                 ELSE Thrown("Malformed", MsgNoExpectedImage)

\* lines 198-227: what the try block does with a response.  outcome names
\* the branch taken: Success (line 217), Refusal (line 223), Malformed
\* (lines 212 and 226)
InterpretResponse(response) ==
    LET c == response.candidates
    IN  IF c = <<>> \/ ~c[1].content.present \/ ~c[1].content.hasParts
               \/ Len(c[1].content.parts) = 0
        THEN Thrown("Malformed", InvalidResultMessage(c))
        ELSE LET parts == c[1].content.parts
                 k == FirstInline(parts, 1)
             IN  IF k # 0 THEN Returned(DataUrl(parts[k].inlineData[1]))
                 ELSE IF Truthy(parts[1].text) THEN Thrown("Refusal", MsgRefusal)
                 ELSE Thrown("Malformed", MsgNoExpectedImage)

\* a variant of CatchInCall without the rethrow of line 231
CatchInCallWrapAll(e, action) == handleApiError(e, action)

\* lines 228-234: the message of the error the catch block throws for e
CatchInCall(e, action) ==
    IF e.isError /\ (Includes(e.message.v, <<ModelRespondedWithText>>)
                        \/ Includes(e.message.v, <<DidNotReturnValid>>))
    THEN e.message.v
    ELSE handleApiError(e, action)

Ok(v) == [tag |-> "ok", value |-> v]
Err(msg) == [tag |-> "err", value |-> msg]

\* the outcome of a service reply and what callImageEditingModel hands its
\* caller for it
OutcomeOf(reply) ==
    IF reply.kind = "throw" THEN "Exception" ELSE InterpretResponse(reply.response).outcome

FinishCall(reply, action) ==
    IF reply.kind = "throw" THEN Err(CatchInCall(reply.thrown, action))
    ELSE LET r == InterpretResponse(reply.response)
         IN  IF r.outcome = "Success" THEN Ok(r.url)
             ELSE Err(CatchInCall(r.thrown, action))

----------------------------------------------------------------------------
(* Image preparation: resizeImageForApi, fileToGenerativePart              *)

MAX_DIMENSION == 2048
SUPPORTED_MIME_TYPES == {<<"image/jpeg">>, <<"image/png">>}
PngType == <<"image/png">>

\* Math.round(a / b) for positive integers: halves round up
RoundDiv(a, b) == (2 * a + b) \div (2 * b)

\* what the host does with a file: the FileReader (ok, error, or a result
\* that is no string), the Image decode, the 2d context, canvas.toBlob and
\* the second FileReader of fileToGenerativePart.  The first step that
\* fails decides the result, so one failure at a time is every case.
HostOk == [read |-> "ok", load |-> TRUE, ctx |-> TRUE, blob |-> TRUE, encode |-> TRUE]
HostOutcomes ==
    {HostOk, [HostOk EXCEPT !.read = "error"], [HostOk EXCEPT !.read = "notString"],
     [HostOk EXCEPT !.load = FALSE], [HostOk EXCEPT !.ctx = FALSE],
     [HostOk EXCEPT !.blob = FALSE], [HostOk EXCEPT !.encode = FALSE]}

\* canvas is the size of the canvas the image was drawn on, <<>> when
\* resizeImageForApi settled without drawing
Resolved(f) ==
    [ok |-> TRUE, file |-> f, mimeType |-> f.type, thrown |-> ErrorOf(<<>>), canvas |-> <<>>]
Rejected(f, e) ==
    [ok |-> FALSE, file |-> f, mimeType |-> f.type, thrown |-> e, canvas |-> <<>>]

\* the PNG file lines 143-159 make of an image drawn at w by h
PngOf(f, w, h) ==
    [type |-> PngType, width |-> w, height |-> h,
     bytes |-> <<"png(">> \o f.bytes \o <<",", ToString(w), "x", ToString(h), ")">>]

\* a variant of CanvasSize that scales both sides by the width
CanvasSizeByWidth(width, height) ==
    LET needsResize == width > MAX_DIMENSION \/ height > MAX_DIMENSION
    IN  IF ~needsResize THEN [width |-> width, height |-> height]
        ELSE [width |-> MAX_DIMENSION,
              height |-> RoundDiv(height * MAX_DIMENSION, width)]

\* newWidth and newHeight, lines 116 and 130-141
CanvasSize(width, height) ==
    LET needsResize == width > MAX_DIMENSION \/ height > MAX_DIMENSION
    IN  IF ~needsResize THEN [width |-> width, height |-> height]
        ELSE IF width > height
        THEN [width |-> MAX_DIMENSION,
              height |-> RoundDiv(height * MAX_DIMENSION, width)]
        ELSE [width |-> RoundDiv(width * MAX_DIMENSION, height),
              height |-> MAX_DIMENSION]

\* a variant of resizeImageForApi that keeps the declared type of an image
\* it only had to resize
resizeImageKeepsType(file, host) ==
    LET needsConversion == file.type \notin SUPPORTED_MIME_TYPES
        width == file.width
        height == file.height
        needsResize == width > MAX_DIMENSION \/ height > MAX_DIMENSION
        size == CanvasSize(width, height)
        png == PngOf(file, size.width, size.height)
    IN  IF host.read # "ok" \/ ~host.load THEN Rejected(file, ErrorOf(<<"Failed to read file.">>))
        ELSE IF ~needsResize /\ ~needsConversion THEN Resolved(file)
        ELSE IF ~host.ctx \/ ~host.blob \/ size.width = 0 \/ size.height = 0
        THEN [Rejected(file, ErrorOf(<<"Failed to create blob from canvas.">>))
                 EXCEPT !.canvas = <<size>>]
        ELSE [Resolved(IF needsConversion THEN png ELSE [png EXCEPT !.type = file.type])
                 EXCEPT !.canvas = <<size>>]

\* a variant of resizeImageForApi that re-encodes every image
resizeImageAlwaysDraws(file, host) ==
    LET size == CanvasSize(file.width, file.height)
    IN  IF host.read # "ok" \/ ~host.load THEN Rejected(file, ErrorOf(<<"Failed to read file.">>))
        ELSE IF ~host.ctx \/ ~host.blob \/ size.width = 0 \/ size.height = 0
        THEN [Rejected(file, ErrorOf(<<"Failed to create blob from canvas.">>))
                 EXCEPT !.canvas = <<size>>]
        ELSE [Resolved(PngOf(file, size.width, size.height)) EXCEPT !.canvas = <<size>>]

\* resizeImageForApi, lines 96-168.  canvas.toBlob hands its callback null
\* when the host fails to encode and when the canvas has no pixels, one
\* of its sides being 0.
resizeImageForApi(file, host) ==
    LET needsConversion == file.type \notin SUPPORTED_MIME_TYPES
        width == file.width
        height == file.height
        needsResize == width > MAX_DIMENSION \/ height > MAX_DIMENSION
        size == CanvasSize(width, height)
        newWidth == size.width
        newHeight == size.height
    IN  IF host.read = "error" THEN Rejected(file, ErrorOf(<<"Failed to read file.">>))
        ELSE IF host.read = "notString"
        THEN Rejected(file, ErrorOf(<<"Failed to read file for processing.">>))
        ELSE IF ~host.load
        THEN Rejected(file, ErrorOf(<<"Failed to load image for processing: ", "[object Event]">>))
        ELSE IF ~needsResize /\ ~needsConversion THEN Resolved(file)
        ELSE IF ~host.ctx
        THEN Rejected(file, ErrorOf(<<"Could not create canvas context.">>))
        ELSE IF ~host.blob \/ newWidth = 0 \/ newHeight = 0
        THEN [Rejected(file, ErrorOf(<<"Failed to create blob from canvas.">>))
                 EXCEPT !.canvas = <<size>>]
        ELSE [Resolved(PngOf(file, newWidth, newHeight)) EXCEPT !.canvas = <<size>>]

\* the base64 payload readAsDataURL gives for a file's bytes
Base64(bytes) == <<"base64(">> \o bytes \o <<")">>

\* fileToGenerativePart, lines 171-185; when the second reader fails the
\* promise rejects with the reader's event, which is no Error
fileToGenerativePart(file, host) ==
    LET r == resizeImageForApi(file, host)
    IN  IF ~r.ok THEN [ok |-> FALSE, part |-> OtherPart, thrown |-> r.thrown]
        ELSE IF ~host.encode
        THEN [ok |-> FALSE, part |-> OtherPart,
              thrown |-> [isError |-> FALSE, message |-> JsUndefined]]
        ELSE [ok |-> TRUE, part |-> ImagePartOf(r.mimeType, Base64(r.file.bytes)),
              thrown |-> ErrorOf(<<>>)]

\* the message a caller reads off a rejection value
MessageOf(e) == IF e.message.t = "string" THEN e.message.v ELSE <<>>

----------------------------------------------------------------------------
(* Past Forward: getFallbackPrompt, extractDecade, the data URL match      *)

Digits == {"0", "1", "2", "3", "4", "5", "6", "7", "8", "9"}

\* the leftmost match of /(\d{4}s)/ starting at or after i; <<>> is null
RECURSIVE MatchDecadeFrom(_, _)
MatchDecadeFrom(s, i) ==
    IF i + 4 > Len(s) THEN <<>>
    ELSE IF (\A k \in i..(i + 3) : s[k] \in Digits) /\ s[i + 4] = "s"
    THEN SubSeq(s, i, i + 4)
    ELSE MatchDecadeFrom(s, i + 1)

\* a variant of MatchDecadeFrom that keeps the last match
RECURSIVE MatchDecadeLast(_, _)
MatchDecadeLast(s, i) ==
    IF i + 4 > Len(s) THEN <<>>
    ELSE IF MatchDecadeLast(s, i + 1) # <<>> THEN MatchDecadeLast(s, i + 1)
    ELSE IF (\A k \in i..(i + 3) : s[k] \in Digits) /\ s[i + 4] = "s"
    THEN SubSeq(s, i, i + 4)
    ELSE <<>>

\* a variant of extractDecade that returns the last decade of the prompt
extractDecadeLast(p) ==
    IF MatchDecadeLast(p, 1) = <<>> THEN JsNull ELSE JsStr(MatchDecadeLast(p, 1))

\* extractDecade, lines 402-405: JsNull when nothing matches
extractDecade(p) ==
    IF MatchDecadeFrom(p, 1) = <<>> THEN JsNull ELSE JsStr(MatchDecadeFrom(p, 1))

FallbackHead == <<"Create a photograph of the person in this image as if they were living in the ">>
FallbackTail == <<". The photograph should capture the distinct fashion, hairstyles, and overall atmosphere of that time period. Ensure the final image is a clear photograph that looks authentic to the era.">>

\* getFallbackPrompt, line 400
getFallbackPrompt(decade) == FallbackHead \o decade \o FallbackTail

\* line 408: /^data:(image\/\w+);base64,(.*)$/ on a URL whose chunks are
\* "data:", the mime type, ";base64," and the payload; a mime type is one
\* chunk, and matches image\/\w+ when it is one of WordImageTypes
WordImageTypes == {<<"image/png">>, <<"image/jpeg">>, <<"image/webp">>}
MatchDataUrl(url) ==
    IF Len(url) >= 3 /\ url[1] = "data:" /\ <<url[2]>> \in WordImageTypes
            /\ url[3] = ";base64,"
    THEN [matched |-> TRUE, mimeType |-> <<url[2]>>, data |-> SubSeq(url, 4, Len(url))]
    ELSE [matched |-> FALSE, mimeType |-> <<>>, data |-> <<>>]

----------------------------------------------------------------------------
(* Request builders of the editing operations                              *)

EditModel == <<"gemini-2.5-flash-image-preview">>
ImagenModel == <<"imagen-4.0-generate-001">>
TextModel == <<"gemini-2.5-flash">>

\* operations that start with fileToGenerativePart(imageFile)
FileKinds == {"retouch", "filter", "style", "adjustment", "texture", "bgremove"}
\* operations whose body has the text-refusal catch clause
PrefixKinds == {"filter", "style", "adjustment", "texture"}

FilterPrefix == <<"Apply this filter: ">>
StylePrefix == <<"Apply this artistic style: ">>
AdjustmentPrefix == <<"Apply this adjustment: ">>
TexturePrefix == <<"Apply this texture: ">>
RemoveBackgroundText == <<"Remove the background of this image, leaving only the main subject with a transparent background.">>

\* the instruction prefix of lines 269, 284, 299 and 314
PrefixOf(kind) ==
    IF kind = "filter" THEN FilterPrefix
    ELSE IF kind = "style" THEN StylePrefix
    ELSE IF kind = "adjustment" THEN AdjustmentPrefix
    ELSE TexturePrefix

\* line 263; arg is <<hotspot.x, hotspot.y>>
HotspotText(arg, p) ==
    <<"Apply this edit at hotspot (", arg[1], ", ", arg[2], "): ">> \o p

\* lines 341-347; srcs are the source parts, each with the index line 338
\* gave it
RECURSIVE SourceLines(_, _)
SourceLines(srcs, i) ==
    IF i > Len(srcs) THEN <<>>
    ELSE <<"Source image ", ToString(srcs[i].index), " is provided. ">>
            \o SourceLines(srcs, i + 1)

FusionText(srcs, p) ==
    <<"Fuse the images. The main image is the one I'm editing. ">>
        \o SourceLines(srcs, 1) \o <<"Instructions: ">> \o p

\* the text part of the first request
PrimaryText(kind, arg, p, srcs) ==
    IF kind = "retouch" THEN HotspotText(arg, p)
    ELSE IF kind \in PrefixKinds THEN PrefixOf(kind) \o p
    ELSE IF kind = "bgremove" THEN RemoveBackgroundText
    ELSE IF kind = "fusion" THEN FusionText(srcs, p)
    ELSE p

\* the parts of the first request: the image, the source images of a
\* fusion in list order (line 350), the text
PrimaryParts(kind, arg, p, ip, srcs) ==
    <<ip>> \o [i \in 1..Len(srcs) |-> [inlineData |-> srcs[i].inlineData, text |-> JsUndefined]]
        \o <<TextPartOf(PrimaryText(kind, arg, p, srcs))>>

\* the action label of the first call (line 352 passes a Chinese label,
\* line 353 is unreachable)
ActionOf(kind, p) ==
    IF kind = "retouch" THEN <<"retouch">>
    ELSE IF kind = "filter" THEN <<"filter">>
    ELSE IF kind = "style" THEN <<"apply style">>
    ELSE IF kind = "adjustment" THEN <<"adjustment">>
    ELSE IF kind = "texture" THEN <<"texture">>
    ELSE IF kind = "bgremove" THEN <<"background removal">>
    ELSE IF kind = "fusion" THEN <<"fusion [zh]">>
    ELSE <<"generate ">> \o ToStr(extractDecade(p)) \o <<" image">>

\* the test of the catch clauses, lines 273, 288, 303, 318 and 424
IsTextRefusal(msg) == Includes(msg, <<ModelRespondedWithText, InsteadOfAnImage>>)

\* a variant of RetriesOn with the catch clause in every operation
RetriesOnAnyKind(kind, p, msg) ==
    IF kind = "decade" THEN IsTextRefusal(msg) /\ Truthy(extractDecade(p))
    ELSE IsTextRefusal(msg)

\* whether the operation answers the error of its first call with a second
\* call: lines 272-278 (and the like) and 422-433
RetriesOn(kind, p, msg) ==
    IF kind \in PrefixKinds THEN IsTextRefusal(msg)
    ELSE IF kind = "decade" THEN IsTextRefusal(msg) /\ Truthy(extractDecade(p))
    ELSE FALSE

\* a variant of FallbackText that keeps the instruction prefix
FallbackTextPrefixed(kind, p) ==
    IF kind = "decade" THEN getFallbackPrompt(extractDecade(p).v)
    ELSE PrimaryText(kind, <<>>, p, <<>>)

\* the text of the second request: lines 275, 290, 305, 320 and 430
FallbackText(kind, p) ==
    IF kind = "decade" THEN getFallbackPrompt(extractDecade(p).v) ELSE p

FallbackParts(kind, p, ip) == <<ip, TextPartOf(FallbackText(kind, p))>>

FallbackAction(kind, p) ==
    IF kind = "decade"
    THEN <<"generate ">> \o extractDecade(p).v \o <<" image (fallback)">>
    ELSE ActionOf(kind, p) \o <<" (fallback)">>

\* what the operation throws for the error of a call it does not retry:
\* generateFusedImage wraps it again (line 356), the others rethrow it
Terminal(kind, res) ==
    IF res.tag = "err" /\ kind = "fusion"
    THEN Err(handleApiError(ErrorOf(res.value), <<"fusion">>))
    ELSE res

----------------------------------------------------------------------------
(* One call of callImageEditingModel up to its await, and the operation's  *)
(* handling of a finished call                                             *)

CurCache == [inst |-> aiInstance, lastKey |-> lastUsedApiKey, lastUrl |-> lastUsedBaseUrl]

NotSent(msg) == [outcome |-> "NotSent", res |-> Err(msg)]

\* lines 188-196: resolve the client, then send; err is what the call
\* throws when getGoogleAI throws
TryCall(c, ctorOk, parts, action) ==
    LET g == getGoogleAI(c.inst, c.lastKey, c.lastUrl, lsApiKey, lsBaseUrl, envApiKey, ctorOk)
    IN  [sent |-> g.ok,
         cache |-> [inst |-> g.inst, lastKey |-> g.lastKey, lastUrl |-> g.lastUrl],
         call |-> [model |-> EditModel, parts |-> parts, action |-> action,
                   sent |-> g.ok, ai |-> g.ai],
         err |-> IF g.ok THEN <<>> ELSE CatchInCall(g.thrown, action)]

\* a variant of Settle that also answers the error of the second call with
\* another call
SettleAgain(kind, p, ip, cs, rs, c, res, ctorOk) ==
    IF res.tag = "err" /\ Len(cs) <= 2 /\ RetriesOn(kind, p, res.value)
    THEN LET t == TryCall(c, ctorOk, FallbackParts(kind, p, ip), FallbackAction(kind, p))
         IN  IF t.sent
             THEN [pc |-> "await", calls |-> Append(cs, t.call), replies |-> rs,
                   cache |-> t.cache, result |-> <<>>]
             ELSE [pc |-> "done", calls |-> Append(cs, t.call),
                   replies |-> Append(rs, NotSent(t.err)),
                   cache |-> t.cache, result |-> <<Err(t.err)>>]
    ELSE [pc |-> "done", calls |-> cs, replies |-> rs, cache |-> c,
          result |-> <<Terminal(kind, res)>>]

\* the operation after a call ended with res, cs being the calls made so
\* far: deliver, or make the fallback call
Settle(kind, p, ip, cs, rs, c, res, ctorOk) ==
    IF res.tag = "err" /\ Len(cs) = 1 /\ RetriesOn(kind, p, res.value)
    THEN LET t == TryCall(c, ctorOk, FallbackParts(kind, p, ip), FallbackAction(kind, p))
         IN  IF t.sent
             THEN [pc |-> "await", calls |-> Append(cs, t.call), replies |-> rs,
                   cache |-> t.cache, result |-> <<>>]
             ELSE [pc |-> "done", calls |-> Append(cs, t.call),
                   replies |-> Append(rs, NotSent(t.err)),
                   cache |-> t.cache, result |-> <<Err(t.err)>>]
    ELSE [pc |-> "done", calls |-> cs, replies |-> rs, cache |-> c,
          result |-> <<Terminal(kind, res)>>]

\* the first call of an operation whose image part is ip
Begin(kind, arg, p, ip, srcs, c, ctorOk1, ctorOk2) ==
    LET t == TryCall(c, ctorOk1, PrimaryParts(kind, arg, p, ip, srcs), ActionOf(kind, p))
    IN  IF t.sent
        THEN [pc |-> "await", calls |-> <<t.call>>, replies |-> <<>>,
              cache |-> t.cache, result |-> <<>>]
        ELSE Settle(kind, p, ip, <<t.call>>, <<NotSent(t.err)>>, t.cache, Err(t.err), ctorOk2)

\* a variant of Failed that ends the operation without handing e on
FailedSilently(kind, e) ==
    [pc |-> "done", calls |-> <<>>, replies |-> <<>>, cache |-> CurCache,
     result |-> <<>>]

\* a variant of Failed that sends the request all the same, without the
\* image that could not be prepared
FailedButSent(kind, e) ==
    [pc |-> "await",
     calls |-> <<[model |-> EditModel, parts |-> <<TextPartOf(prompt)>>,
                  action |-> ActionOf(kind, prompt), sent |-> TRUE, ai |-> aiInstance]>>,
     replies |-> <<>>, cache |-> CurCache, result |-> <<>>]

\* an operation that ends before any call, rejecting with e; all of
\* generateFusedImage is inside its try block (lines 334-357)
Failed(kind, e) ==
    [pc |-> "done", calls |-> <<>>, replies |-> <<>>, cache |-> CurCache,
     result |-> <<IF kind = "fusion" THEN Err(handleApiError(e, <<"fusion">>))
                  ELSE Err(MessageOf(e))>>]

\* the handler's result n, evaluated once, becomes the next state
Apply(n) ==
    \E m \in {n} :
        /\ pc' = m.pc
        /\ calls' = m.calls
        /\ replies' = m.replies
        /\ result' = m.result
        /\ aiInstance' = m.cache.inst
        /\ lastUsedApiKey' = m.cache.lastKey
        /\ lastUsedBaseUrl' = m.cache.lastUrl

----------------------------------------------------------------------------
(* Inputs                                                                  *)

MaxSources == 2

KeyValues == {JsNull, JsStr(<<"k">>)}
UrlValues == {JsNull, JsStr(<<"u">>)}
EnvKeys == {JsUndefined, JsStr(<<"e">>)}

FileOf(id, type, w, h) == [type |-> type, width |-> w, height |-> h, bytes |-> <<id>>]
Files ==
    {FileOf("a.jpg", <<"image/jpeg">>, 800, 600),
     FileOf("b.webp", <<"image/webp">>, 4096, 1000)}

OpPrompts == {<<"s", "1">>, <<"1", "1", "2", "2", "s">>}
Hotspots == {<<"10", "20">>}
DataUrls ==
    {<<"data:", "image/png", ";base64,", "p1">>,
     <<"data:", "image/svg+xml", ";base64,", "p2">>,
     <<"data:", "image/webp", ";base64,", "p3">>}

\* replies of the editing model, one or more for each way lines 198-234 can go
\* rejections of a request, one or more for each way the catch clauses can go
OpThrown ==
    {ErrorOf(<<"socket hang up">>),
     ErrorOf(<<"got status: 400. ">> \o KeyNotValid),
     ErrorOf(<<"fetch failed: ">> \o XhrError),
     ErrorOf(<<ModelRespondedWithText>>),
     ErrorOf(<<ModelRespondedWithText, InsteadOfAnImage>>),
     ErrorOf(JsonErr(<<"quota exceeded">>)),
     [isError |-> FALSE, message |-> JsStr(<<ModelRespondedWithText, InsteadOfAnImage>>)]}

PartsReply(ps) ==
    Responded([candidates |->
        <<[content |-> [present |-> TRUE, hasParts |-> TRUE, parts |-> ps],
           finishReason |-> JsStr(<<"STOP">>),
           safetyRatings |-> [present |-> FALSE, blocked |-> <<>>]]>>])

OpReplies ==
    {Responded(NoResponse)}
        \cup {PartsReply(ps) : ps \in
                {<<>>,
                 <<ImagePartOf(<<"image/png">>, <<"d1">>)>>,
                 <<TextPartOf(<<"t1">>), ImagePartOf(<<"image/jpeg">>, <<"d2">>)>>,
                 <<TextPartOf(<<"t1">>)>>,
                 <<OtherPart, TextPartOf(<<"t2">>)>>}}
        \cup {Threw(e) : e \in OpThrown}

----------------------------------------------------------------------------
(* The operations                                                          *)

MaxCallers == 2
Callers == 1..MaxCallers

\* a caller with no operation in flight; no getGoogleAI call made yet
ClientIdle == [pc |-> "idle", ai |-> NoInstance]
NoAttempt == [n |-> 0, outcome |-> "none"]

IdleClients ==
    /\ callers = [c \in Callers |-> ClientIdle]
    /\ lastAttempt = NoAttempt

\* no image under normalization
NoFile == [type |-> <<>>, width |-> 0, height |-> 0, bytes |-> <<>>]
IdleNorm == norm = [file |-> NoFile, host |-> HostOk, done |-> FALSE, out |-> Resolved(NoFile)]

\* the panel as mounted: lines 19-22, nothing applied yet
SlotIds == {1, 2, 3}
NoSlots == [k \in SlotIds |-> <<>>]
PanelIdle == [slots |-> NoSlots, prompt |-> <<>>, error |-> <<>>, applied |-> NoSlots]
IdlePanel == panel = PanelIdle

NotInterpreted == [done |-> FALSE, outcome |-> "", res |-> Err(<<>>)]

IdleOp ==
    /\ pc = "idle"
    /\ op = "none"
    /\ opArg = <<>>
    /\ prompt = <<>>
    /\ imageFile = <<>>
    /\ imagePart = <<>>
    /\ srcFiles = <<>>
    /\ srcParts = <<>>
    /\ heldAi = NoInstance
    /\ calls = <<>>
    /\ replies = <<>>
    /\ result = <<>>

IdleInterp ==
    /\ rawReply = Responded(NoResponse)
    /\ actionLabel = <<>>
    /\ interp = NotInterpreted

Init ==
    /\ aiInstance = NoInstance
    /\ lastUsedApiKey = JsNull
    /\ lastUsedBaseUrl = JsNull
    /\ lsApiKey \in KeyValues
    /\ lsBaseUrl \in UrlValues
    /\ envApiKey \in EnvKeys
    /\ IdleOp
    /\ IdleClients
    /\ IdleNorm
    /\ IdlePanel
    /\ IdleInterp

\* the settings dialog stores or clears the key / the base URL
SetApiKey(v) ==
    /\ lsApiKey' = v
    /\ v # lsApiKey
    /\ UNCHANGED <<lsBaseUrl, envApiKey, cacheVars, opVars, interpVars, clientVars, normVars, panelVars>>

SetBaseUrl(v) ==
    /\ lsBaseUrl' = v
    /\ v # lsBaseUrl
    /\ UNCHANGED <<lsApiKey, envApiKey, cacheVars, opVars, interpVars, clientVars, normVars, panelVars>>

\* generateEditedImage, generateFilteredImage, generateStyledImage,
\* generateAdjustedImage, generateTexturedImage, removeBackgroundImage up to
\* their first await
StartEdit(kind, f, p, arg) ==
    /\ pc = "idle"
    /\ pc' = "prep"
    /\ op' = kind
    /\ opArg' = arg
    /\ prompt' = p
    /\ imageFile' = <<f>>
    /\ UNCHANGED <<imagePart, srcFiles, srcParts, heldAi, calls, replies, result,
                   cacheVars, configVars, interpVars, clientVars, normVars, panelVars>>

\* fileToGenerativePart settles; the operation builds its parts and calls
\* callImageEditingModel, which runs to its await
PrepDone ==
    /\ pc = "prep"
    /\ op \in FileKinds
    /\ \E host \in HostOutcomes, ctorOk1, ctorOk2 \in BOOLEAN :
         LET r == fileToGenerativePart(imageFile[1], host)
         IN  IF r.ok
             THEN /\ imagePart' = <<r.part>>
                  /\ Apply(Begin(op, opArg, prompt, r.part, <<>>, CurCache, ctorOk1, ctorOk2))
             ELSE /\ imagePart' = imagePart
                  /\ Apply(Failed(op, r.thrown))
    /\ UNCHANGED <<op, opArg, prompt, imageFile, srcFiles, srcParts, heldAi,
                   configVars, interpVars, clientVars, normVars, panelVars>>

\* generateFusedImage up to its first await
EnterFusion(f, srcs, p) ==
    /\ pc = "idle"
    /\ pc' = "prep"
    /\ op' = "fusion"
    /\ prompt' = p
    /\ imageFile' = <<f>>
    /\ srcFiles' = srcs
    /\ srcParts' = [i \in 1..Len(srcs) |-> <<>>]
    /\ UNCHANGED <<opArg, imagePart, heldAi, calls, replies, result,
                   cacheVars, configVars, interpVars, clientVars, normVars>>

\* generateFusedImage called by any caller
StartFusion(f, srcs, p) ==
    /\ EnterFusion(f, srcs, p)
    /\ UNCHANGED panelVars

\* the main image settles (line 335); the source images then start
\* together (lines 337-339)
FusionMainDone ==
    /\ pc = "prep"
    /\ op = "fusion"
    /\ \E host \in HostOutcomes, ctorOk1, ctorOk2 \in BOOLEAN :
         LET r == fileToGenerativePart(imageFile[1], host)
         IN  IF ~r.ok
             THEN /\ imagePart' = imagePart
                  /\ Apply(Failed(op, r.thrown))
             ELSE /\ imagePart' = <<r.part>>
                  /\ IF Len(srcFiles) = 0
                     THEN Apply(Begin(op, opArg, prompt, r.part, <<>>, CurCache, ctorOk1, ctorOk2))
                     ELSE /\ pc' = "prepSources"
                          /\ UNCHANGED <<calls, replies, result, cacheVars>>
    /\ UNCHANGED <<op, opArg, prompt, imageFile, srcFiles, srcParts, heldAi,
                   configVars, interpVars, clientVars, normVars, panelVars>>

\* a variant of SourcePrepDone that numbers the source images as they settle
SourcePrepDoneByArrival(i) ==
    /\ pc = "prepSources"
    /\ i \in 1..Len(srcFiles)
    /\ srcParts[i] = <<>>
    /\ \E host \in HostOutcomes, ctorOk1, ctorOk2 \in BOOLEAN :
         LET r == fileToGenerativePart(srcFiles[i], host)
             settled == Cardinality({j \in 1..Len(srcParts) : srcParts[j] # <<>>})
             got == [srcParts EXCEPT ![i] =
                        <<[inlineData |-> r.part.inlineData, text |-> r.part.text,
                           index |-> settled + 1]>>]
         IN  IF ~r.ok
             THEN /\ srcParts' = srcParts
                  /\ Apply(Failed(op, r.thrown))
             ELSE /\ srcParts' = got
                  /\ IF \A j \in 1..Len(got) : got[j] # <<>>
                     THEN Apply(Begin(op, opArg, prompt, imagePart[1],
                                      [j \in 1..Len(got) |-> got[j][1]],
                                      CurCache, ctorOk1, ctorOk2))
                     ELSE UNCHANGED <<pc, calls, replies, result, cacheVars>>
    /\ UNCHANGED <<op, opArg, prompt, imageFile, imagePart, srcFiles, heldAi,
                   configVars, interpVars, clientVars, normVars, panelVars>>

\* source image i settles, in any order; the first failure rejects
\* Promise.all, the last success lets the operation go on to its call
SourcePrepDone(i) ==
    /\ pc = "prepSources"
    /\ i \in 1..Len(srcFiles)
    /\ srcParts[i] = <<>>
    /\ \E host \in HostOutcomes, ctorOk1, ctorOk2 \in BOOLEAN :
         LET r == fileToGenerativePart(srcFiles[i], host)
             got == [srcParts EXCEPT ![i] =
                        <<[inlineData |-> r.part.inlineData, text |-> r.part.text, index |-> i]>>]
         IN  IF ~r.ok
             THEN /\ srcParts' = srcParts
                  /\ Apply(Failed(op, r.thrown))
             ELSE /\ srcParts' = got
                  /\ IF \A j \in 1..Len(got) : got[j] # <<>>
                     THEN Apply(Begin(op, opArg, prompt, imagePart[1],
                                      [j \in 1..Len(got) |-> got[j][1]],
                                      CurCache, ctorOk1, ctorOk2))
                     ELSE UNCHANGED <<pc, calls, replies, result, cacheVars>>
    /\ UNCHANGED <<op, opArg, prompt, imageFile, imagePart, srcFiles, heldAi,
                   configVars, interpVars, clientVars, normVars, panelVars>>

\* generateDecadeImage up to its first await: the data URL match, then the
\* first call
StartDecade(url, p) ==
    /\ pc = "idle"
    /\ op' = "decade"
    /\ prompt' = p
    /\ \E ctorOk1, ctorOk2 \in BOOLEAN :
         LET m == MatchDataUrl(url)
         IN  IF ~m.matched
             THEN /\ imagePart' = imagePart
                  /\ Apply(Failed("decade", ErrorOf(<<"Invalid image data URL format.">>)))
             ELSE /\ imagePart' = <<ImagePartOf(m.mimeType, m.data)>>
                  /\ Apply(Begin("decade", <<>>, p, ImagePartOf(m.mimeType, m.data), <<>>,
                                 CurCache, ctorOk1, ctorOk2))
    /\ UNCHANGED <<opArg, imageFile, srcFiles, srcParts, heldAi, configVars, interpVars, clientVars, normVars, panelVars>>

\* the editing model answers the pending call: the rest of
\* callImageEditingModel, then the operation's catch clause and, where it
\* retries, the second call up to its await
Reply ==
    /\ pc = "await"
    /\ op \in FileKinds \cup {"fusion", "decade"}
    /\ \E reply \in OpReplies, ctorOk \in BOOLEAN :
         LET res == FinishCall(reply, calls[Len(calls)].action)
             rs == Append(replies, [outcome |-> OutcomeOf(reply), res |-> res])
         IN  Apply(Settle(op, prompt, imagePart[1], calls, rs, CurCache, res, ctorOk))
    /\ UNCHANGED <<op, opArg, prompt, imageFile, imagePart, srcFiles, srcParts, heldAi,
                   configVars, interpVars, clientVars, normVars, panelVars>>

\* the caller takes the result; the next operation can start
Deliver ==
    /\ pc = "done"
    /\ pc' = "idle"
    /\ op' = "none"
    /\ opArg' = <<>>
    /\ prompt' = <<>>
    /\ imageFile' = <<>>
    /\ imagePart' = <<>>
    /\ srcFiles' = <<>>
    /\ srcParts' = <<>>
    /\ heldAi' = NoInstance
    /\ calls' = <<>>
    /\ replies' = <<>>
    /\ result' = <<>>
    /\ UNCHANGED <<cacheVars, configVars, interpVars, clientVars, normVars, panelVars>>

----------------------------------------------------------------------------
(* generateImageFromText and generateCreativeSuggestions                   *)

AspectRatios == {<<"1:1">>, <<"16:9">>}
SuggestionTypes == {<<"filter">>, <<"texture">>}

\* line 254 (Chinese in the source; line 255 is unreachable)
MsgNoImageGenerated == <<"AI failed to generate the image. [zh]">>
MsgTypeError == <<"Cannot read properties of undefined">>
MsgSyntaxError == <<"Unexpected token in JSON">>

\* generateImages replies: generatedImages is absent or a list; an entry is
\* <<>> when it has no image, else <<imageBytes>>
ImagenReplies ==
    {[kind |-> "response", listed |-> FALSE, images |-> <<>>, thrown |-> ErrorOf(<<>>)]}
        \cup {[kind |-> "response", listed |-> TRUE, images |-> im, thrown |-> ErrorOf(<<>>)] :
                im \in {<<>>, <<(<<"b1">>)>>, <<(<<"b2">>), (<<"b1">>)>>, <<(<<>>)>>}}
        \cup {[kind |-> "throw", listed |-> FALSE, images |-> <<>>, thrown |-> e] :
                e \in OpThrown}

\* lines 250-258
FinishImageFromText(reply) ==
    LET action == <<"generate image">>
    IN  IF reply.kind = "throw" THEN Err(handleApiError(reply.thrown, action))
        ELSE IF reply.listed /\ Len(reply.images) > 0
        THEN IF reply.images[1] = <<>>
             THEN Err(handleApiError(ErrorOf(MsgTypeError), action))
             ELSE Ok(<<"data:image/png;base64,">> \o reply.images[1])
        ELSE Err(handleApiError(ErrorOf(MsgNoImageGenerated), action))

ImagenOutcome(reply) ==
    IF reply.kind = "throw" THEN "Exception"
    ELSE IF FinishImageFromText(reply).tag = "ok" THEN "Success" ELSE "Malformed"

\* line 364
SuggestionText(type) ==
    <<"Analyze this image. Suggest 4 creative and interesting image ">> \o type
        \o <<"s that would look good on it. Provide a very short, catchy name (2-4 words, in Chinese) and the corresponding detailed English prompt for each suggestion.">>

\* response.text of the text model: undefined, or a text; the chunk
\* SuggestionsJson is a JSON object with a suggestions array, JsonOther one
\* without
SuggestionsJson == "{\"suggestions\":[...]}"
TextReplies ==
    {[kind |-> "response", text |-> t, thrown |-> ErrorOf(<<>>)] :
        t \in {JsUndefined, JsStr(<<" ", SuggestionsJson, " ">>), JsStr(<<JsonOther>>),
               JsStr(<<"Sorry, I cannot help.">>)}}
        \cup {[kind |-> "throw", text |-> JsUndefined, thrown |-> e] : e \in OpThrown}

\* lines 390-395
FinishSuggestions(reply) ==
    LET action == <<"get inspiration">>
    IN  IF reply.kind = "throw" THEN Err(handleApiError(reply.thrown, action))
        ELSE IF reply.text.t # "string"
        THEN Err(handleApiError(ErrorOf(MsgTypeError), action))
        ELSE IF Trim(reply.text.v) = <<SuggestionsJson>> THEN Ok(<<"suggestions">>)
        ELSE IF Trim(reply.text.v) = <<JsonOther>> THEN Ok(<<"undefined">>)
        ELSE Err(handleApiError(ErrorOf(MsgSyntaxError), action))

SuggestionsOutcome(reply) ==
    IF reply.kind = "throw" THEN "Exception"
    ELSE IF FinishSuggestions(reply).tag = "ok" THEN "Success" ELSE "Malformed"

\* generateImageFromText up to its await, lines 238-248
StartImageFromText(p, aspect) ==
    /\ pc = "idle"
    /\ op' = "imagen"
    /\ opArg' = aspect
    /\ prompt' = p
    /\ \E ctorOk \in BOOLEAN :
         LET g == getGoogleAI(aiInstance, lastUsedApiKey, lastUsedBaseUrl,
                              lsApiKey, lsBaseUrl, envApiKey, ctorOk)
             call == [model |-> ImagenModel, parts |-> <<TextPartOf(p)>>,
                      action |-> <<"generate image">>, sent |-> g.ok, ai |-> g.ai]
             err == handleApiError(g.thrown, <<"generate image">>)
         IN  Apply([pc |-> IF g.ok THEN "await" ELSE "done",
                    calls |-> <<call>>,
                    replies |-> IF g.ok THEN <<>> ELSE <<NotSent(err)>>,
                    cache |-> [inst |-> g.inst, lastKey |-> g.lastKey, lastUrl |-> g.lastUrl],
                    result |-> IF g.ok THEN <<>> ELSE <<Err(err)>>])
    /\ UNCHANGED <<imageFile, imagePart, srcFiles, srcParts, heldAi, configVars, interpVars, clientVars, normVars, panelVars>>

\* generateImages settles
ImagenReply ==
    /\ pc = "await"
    /\ op = "imagen"
    /\ \E reply \in ImagenReplies :
         Apply([pc |-> "done", calls |-> calls,
                replies |-> Append(replies, [outcome |-> ImagenOutcome(reply),
                                             res |-> FinishImageFromText(reply)]),
                cache |-> CurCache,
                result |-> <<FinishImageFromText(reply)>>])
    /\ UNCHANGED <<op, opArg, prompt, imageFile, imagePart, srcFiles, srcParts, heldAi,
                   configVars, interpVars, clientVars, normVars, panelVars>>

\* generateCreativeSuggestions up to its first await: the client is
\* resolved before the image is prepared (lines 362-363)
StartSuggestions(f, type) ==
    /\ pc = "idle"
    /\ op' = "suggest"
    /\ opArg' = type
    /\ imageFile' = <<f>>
    /\ \E ctorOk \in BOOLEAN :
         LET g == getGoogleAI(aiInstance, lastUsedApiKey, lastUsedBaseUrl,
                              lsApiKey, lsBaseUrl, envApiKey, ctorOk)
             err == handleApiError(g.thrown, <<"get inspiration">>)
         IN  /\ heldAi' = g.ai
             /\ Apply([pc |-> IF g.ok THEN "prep" ELSE "done",
                       calls |-> <<>>, replies |-> <<>>,
                       cache |-> [inst |-> g.inst, lastKey |-> g.lastKey, lastUrl |-> g.lastUrl],
                       result |-> IF g.ok THEN <<>> ELSE <<Err(err)>>])
    /\ UNCHANGED <<prompt, imagePart, srcFiles, srcParts, configVars, interpVars, clientVars, normVars, panelVars>>

\* the image settles; the request goes out on the client held since the
\* start (lines 363-388)
SuggestPrepDone ==
    /\ pc = "prep"
    /\ op = "suggest"
    /\ \E host \in HostOutcomes :
         LET r == fileToGenerativePart(imageFile[1], host)
             call == [model |-> TextModel,
                      parts |-> <<r.part, TextPartOf(SuggestionText(opArg))>>,
                      action |-> <<"get inspiration">>, sent |-> TRUE, ai |-> heldAi]
         IN  IF r.ok
             THEN /\ imagePart' = <<r.part>>
                  /\ Apply([pc |-> "await", calls |-> <<call>>, replies |-> <<>>,
                            cache |-> CurCache, result |-> <<>>])
             ELSE /\ imagePart' = imagePart
                  /\ Apply([pc |-> "done", calls |-> <<>>, replies |-> <<>>,
                            cache |-> CurCache,
                            result |-> <<Err(handleApiError(r.thrown, <<"get inspiration">>))>>])
    /\ UNCHANGED <<op, opArg, prompt, imageFile, srcFiles, srcParts, heldAi,
                   configVars, interpVars, clientVars, normVars, panelVars>>

\* the text model settles
SuggestionsReply ==
    /\ pc = "await"
    /\ op = "suggest"
    /\ \E reply \in TextReplies :
         Apply([pc |-> "done", calls |-> calls,
                replies |-> Append(replies, [outcome |-> SuggestionsOutcome(reply),
                                             res |-> FinishSuggestions(reply)]),
                cache |-> CurCache,
                result |-> <<FinishSuggestions(reply)>>])
    /\ UNCHANGED <<op, opArg, prompt, imageFile, imagePart, srcFiles, srcParts, heldAi,
                   configVars, interpVars, clientVars, normVars, panelVars>>

----------------------------------------------------------------------------
(* The service layer: one operation at a time, settings changing freely    *)

Next ==
    \/ \E v \in KeyValues : SetApiKey(v)
    \/ \E v \in UrlValues : SetBaseUrl(v)
    \/ \E f \in Files, p \in OpPrompts, h \in Hotspots : StartEdit("retouch", f, p, h)
    \/ \E kind \in FileKinds \ {"retouch"}, f \in Files, p \in OpPrompts :
         StartEdit(kind, f, p, <<>>)
    \/ PrepDone
    \/ \E f \in Files, srcs \in SeqsUpTo(Files, MaxSources), p \in OpPrompts :
         StartFusion(f, srcs, p)
    \/ FusionMainDone
    \/ \E i \in 1..MaxSources : SourcePrepDone(i)
    \/ \E url \in DataUrls, p \in OpPrompts : StartDecade(url, p)
    \/ Reply
    \/ \E p \in OpPrompts, a \in AspectRatios : StartImageFromText(p, a)
    \/ ImagenReply
    \/ \E f \in Files, t \in SuggestionTypes : StartSuggestions(f, t)
    \/ SuggestPrepDone
    \/ SuggestionsReply
    \/ Deliver

Spec == Init /\ [][Next]_vars

----------------------------------------------------------------------------
(* The service layer when every pending step of the host and of the        *)
(* service settles: each FileReader, Image, canvas.toBlob and request       *)
(* promise the operation awaits is eventually resolved or rejected          *)

Settles ==
    /\ WF_vars(PrepDone)
    /\ WF_vars(FusionMainDone)
    /\ WF_vars(\E i \in 1..MaxSources : SourcePrepDone(i))
    /\ WF_vars(Reply)
    /\ WF_vars(ImagenReply)
    /\ WF_vars(SuggestPrepDone)
    /\ WF_vars(SuggestionsReply)

LiveFile == FileOf("b.webp", <<"image/webp">>, 4096, 1000)
LivePrompt == <<"1", "1", "2", "2", "s">>

InitLive ==
    /\ aiInstance = NoInstance
    /\ lastUsedApiKey = JsNull
    /\ lastUsedBaseUrl = JsNull
    /\ lsApiKey \in KeyValues
    /\ lsBaseUrl = JsNull
    /\ envApiKey = JsUndefined
    /\ IdleOp
    /\ IdleClients
    /\ IdleNorm
    /\ IdlePanel
    /\ IdleInterp

\* every operation, on one file and one prompt; the key may be stored or
\* cleared at any time
NextLive ==
    \/ \E v \in KeyValues : SetApiKey(v)
    \/ \E f \in Files, h \in Hotspots : StartEdit("retouch", f, LivePrompt, h)
    \/ \E kind \in FileKinds \ {"retouch"}, f \in Files : StartEdit(kind, f, LivePrompt, <<>>)
    \/ PrepDone
    \/ \E srcs \in SeqsUpTo({LiveFile}, MaxSources) : StartFusion(LiveFile, srcs, LivePrompt)
    \/ FusionMainDone
    \/ \E i \in 1..MaxSources : SourcePrepDone(i)
    \/ \E url \in DataUrls : StartDecade(url, LivePrompt)
    \/ Reply
    \/ \E a \in AspectRatios : StartImageFromText(LivePrompt, a)
    \/ ImagenReply
    \/ \E f \in Files, t \in SuggestionTypes : StartSuggestions(f, t)
    \/ SuggestPrepDone
    \/ SuggestionsReply
    \/ Deliver

SpecLive == InitLive /\ [][NextLive]_vars /\ Settles

----------------------------------------------------------------------------
(* callImageEditingModel on every reply: the reply is the input             *)

ActionLabels == {<<"filter">>, <<"filter", " (fallback)">>}

InitInterpret ==
    /\ aiInstance = NoInstance
    /\ lastUsedApiKey = JsNull
    /\ lastUsedBaseUrl = JsNull
    /\ lsApiKey = JsStr(<<"k">>)
    /\ lsBaseUrl = JsNull
    /\ envApiKey = JsUndefined
    /\ IdleOp
    /\ IdleClients
    /\ IdleNorm
    /\ IdlePanel
    /\ rawReply \in ServiceReplies
    /\ actionLabel \in ActionLabels
    /\ interp = NotInterpreted

\* lines 198-234 run on rawReply
InterpretReply ==
    /\ ~interp.done
    /\ interp' = [done |-> TRUE, outcome |-> OutcomeOf(rawReply),
                  res |-> FinishCall(rawReply, actionLabel)]
    /\ UNCHANGED <<rawReply, actionLabel, cacheVars, configVars, opVars, clientVars, normVars, panelVars>>

NextInterpret == InterpretReply

SpecInterpret == InitInterpret /\ [][NextInterpret]_vars

----------------------------------------------------------------------------
(* generateDecadeImage on prompts built from pieces                        *)

MaxPieces == 3

PromptPieces ==
    {<<"1", "2", "1", "2", "s">>, <<"2", "1", "2", "1", "s">>, <<"2", "1">>, <<"1">>, <<"s">>}

RECURSIVE Concat(_)
Concat(ss) == IF ss = <<>> THEN <<>> ELSE Head(ss) \o Concat(Tail(ss))

DecadePrompts == {Concat(ss) : ss \in SeqsUpTo(PromptPieces, MaxPieces)}

InitDecade ==
    /\ aiInstance = NoInstance
    /\ lastUsedApiKey = JsNull
    /\ lastUsedBaseUrl = JsNull
    /\ lsApiKey = JsStr(<<"k">>)
    /\ lsBaseUrl = JsNull
    /\ envApiKey = JsUndefined
    /\ IdleOp
    /\ IdleClients
    /\ IdleNorm
    /\ IdlePanel
    /\ IdleInterp

NextDecade ==
    \/ \E url \in DataUrls, p \in DecadePrompts : StartDecade(url, p)
    \/ Reply
    \/ Deliver

SpecDecade == InitDecade /\ [][NextDecade]_vars

----------------------------------------------------------------------------
(* handleApiError on every raw error: the error is the input               *)

MaxChunks == 3

\* the chunks raw error messages are built from
MessageChunks ==
    {"API key not valid", "xhr error", "socket hang up",
     JsonErrOpen, JsonErrClose, JsonMsgOpen, JsonMsgClose, JsonOther}

RawMessages == SeqsUpTo(MessageChunks, MaxChunks)

\* the values handleApiError is given: errors with a message, and values
\* whose message is undefined or null
RawErrors ==
    {ErrorOf(m) : m \in RawMessages}
        \cup {[isError |-> FALSE, message |-> JsUndefined],
              [isError |-> FALSE, message |-> JsNull]}

ClassifyLabels == {<<"retouch">>, <<"apply style">>, <<"generate image">>}

InitClassify ==
    /\ aiInstance = NoInstance
    /\ lastUsedApiKey = JsNull
    /\ lastUsedBaseUrl = JsNull
    /\ lsApiKey = JsStr(<<"k">>)
    /\ lsBaseUrl = JsNull
    /\ envApiKey = JsUndefined
    /\ IdleOp
    /\ IdleClients
    /\ IdleNorm
    /\ IdlePanel
    /\ rawReply \in {Threw(e) : e \in RawErrors}
    /\ actionLabel \in ClassifyLabels
    /\ interp = NotInterpreted

\* handleApiError runs on the thrown value (lines 71-92)
ClassifyError ==
    /\ ~interp.done
    /\ interp' = [done |-> TRUE, outcome |-> "Exception",
                  res |-> Err(handleApiError(rawReply.thrown, actionLabel))]
    /\ UNCHANGED <<rawReply, actionLabel, cacheVars, configVars, opVars, clientVars, normVars, panelVars>>

NextClassify == ClassifyError

SpecClassify == InitClassify /\ [][NextClassify]_vars

----------------------------------------------------------------------------
(* The shared client under concurrent operations.  Between two awaits an   *)
(* operation runs alone, so getGoogleAI and the request that follows it    *)
(* are one step; operations interleave at their awaits, and the settings   *)
(* can change between any two steps.                                        *)

\* what a getGoogleAI call did: returned the cached handle, built one,
\* threw for want of a key, or threw because the constructor threw
AttemptOutcome(g) ==
    IF g.ok THEN (IF g.built THEN "built" ELSE "reused")
    ELSE IF g.thrown = ErrorOf(MsgNoKey) THEN "nokey"
    ELSE "ctorfail"

\* caller c calls getGoogleAI; with a handle it goes on to pcOk, holding
\* the handle; without one its operation ends with the error
ClientResolve(c, ctorOk, pcOk) ==
    \E g \in {getGoogleAI(aiInstance, lastUsedApiKey, lastUsedBaseUrl,
                          lsApiKey, lsBaseUrl, envApiKey, ctorOk)} :
        /\ callers' = [callers EXCEPT ![c] =
                          IF g.ok THEN [pc |-> pcOk, ai |-> g.ai] ELSE ClientIdle]
        /\ aiInstance' = g.inst
        /\ lastUsedApiKey' = g.lastKey
        /\ lastUsedBaseUrl' = g.lastUrl
        /\ lastAttempt' = [n |-> 1 - lastAttempt.n, outcome |-> AttemptOutcome(g)]
        /\ UNCHANGED <<configVars, opVars, interpVars, normVars, panelVars>>

\* an editing operation starts and awaits fileToGenerativePart (line 262
\* and the like)
ClientStartEdit(c) ==
    /\ callers[c].pc = "idle"
    /\ callers' = [callers EXCEPT ![c] = [pc |-> "prep", ai |-> NoInstance]]
    /\ UNCHANGED <<lastAttempt, cacheVars, configVars, opVars, interpVars, normVars, panelVars>>

\* the image is ready: callImageEditingModel resolves the client and sends
\* the first request (lines 188-196)
ClientCall(c) ==
    /\ callers[c].pc = "prep"
    /\ \E ctorOk \in BOOLEAN : ClientResolve(c, ctorOk, "await1")

\* the image cannot be prepared: the operation ends before any call
ClientPrepFails(c) ==
    /\ callers[c].pc \in {"prep", "held"}
    /\ callers' = [callers EXCEPT ![c] = ClientIdle]
    /\ UNCHANGED <<lastAttempt, cacheVars, configVars, opVars, interpVars, normVars, panelVars>>

\* the first request was refused: the catch clause calls
\* callImageEditingModel again (lines 272-278, 422-433)
ClientFallback(c) ==
    /\ callers[c].pc = "await1"
    /\ \E ctorOk \in BOOLEAN : ClientResolve(c, ctorOk, "await")

\* a request settles and the operation ends
ClientSettle(c) ==
    /\ callers[c].pc \in {"await1", "await"}
    /\ callers' = [callers EXCEPT ![c] = ClientIdle]
    /\ UNCHANGED <<lastAttempt, cacheVars, configVars, opVars, interpVars, normVars, panelVars>>

\* generateImageFromText resolves the client and sends (lines 239-240)
ClientImageFromText(c) ==
    /\ callers[c].pc = "idle"
    /\ \E ctorOk \in BOOLEAN : ClientResolve(c, ctorOk, "await")

\* generateCreativeSuggestions resolves the client, then awaits
\* fileToGenerativePart (lines 362-363)
ClientSuggest(c) ==
    /\ callers[c].pc = "idle"
    /\ \E ctorOk \in BOOLEAN : ClientResolve(c, ctorOk, "held")

\* the image is ready: the request goes out on the handle held since line
\* 362 (line 367)
ClientSuggestSend(c) ==
    /\ callers[c].pc = "held"
    /\ callers' = [callers EXCEPT ![c] = [pc |-> "await", ai |-> callers[c].ai]]
    /\ UNCHANGED <<lastAttempt, cacheVars, configVars, opVars, interpVars, normVars, panelVars>>

InitClient ==
    /\ aiInstance = NoInstance
    /\ lastUsedApiKey = JsNull
    /\ lastUsedBaseUrl = JsNull
    /\ lsApiKey \in KeyValues
    /\ lsBaseUrl \in UrlValues
    /\ envApiKey \in EnvKeys
    /\ IdleOp
    /\ IdleClients
    /\ IdleNorm
    /\ IdlePanel
    /\ IdleInterp

NextClient ==
    \/ \E v \in KeyValues : SetApiKey(v)
    \/ \E v \in UrlValues : SetBaseUrl(v)
    \/ \E c \in Callers :
         \/ ClientStartEdit(c)
         \/ ClientCall(c)
         \/ ClientPrepFails(c)
         \/ ClientFallback(c)
         \/ ClientSettle(c)
         \/ ClientImageFromText(c)
         \/ ClientSuggest(c)
         \/ ClientSuggestSend(c)

SpecClient == InitClient /\ [][NextClient]_vars

----------------------------------------------------------------------------
(* The client of one caller over stored settings that may be blank         *)

StoredKeys ==
    {JsNull, JsStr(<<>>), JsStr(<<" ">>), JsStr(<<" ", " ">>), JsStr(<<"k">>),
     JsStr(<<" ", "k", " ">>)}
StoredUrls ==
    {JsNull, JsStr(<<>>), JsStr(<<" ">>), JsStr(<<"u">>), JsStr(<<" ", "u", " ">>)}
EnvDefaults == {JsUndefined, JsStr(<<>>), JsStr(<<"e">>)}

InitConfig ==
    /\ aiInstance = NoInstance
    /\ lastUsedApiKey = JsNull
    /\ lastUsedBaseUrl = JsNull
    /\ lsApiKey \in StoredKeys
    /\ lsBaseUrl \in StoredUrls
    /\ envApiKey \in EnvDefaults
    /\ IdleOp
    /\ IdleClients
    /\ IdleNorm
    /\ IdlePanel
    /\ IdleInterp

NextConfig ==
    \/ \E v \in StoredKeys : SetApiKey(v)
    \/ \E v \in StoredUrls : SetBaseUrl(v)
    \/ ClientStartEdit(1)
    \/ ClientCall(1)
    \/ ClientPrepFails(1)
    \/ ClientFallback(1)
    \/ ClientSettle(1)
    \/ ClientImageFromText(1)
    \/ ClientSuggest(1)
    \/ ClientSuggestSend(1)

SpecConfig == InitConfig /\ [][NextConfig]_vars

----------------------------------------------------------------------------
(* Response interpretation (SpecInterpret)                                 *)

ReplyCandidate == rawReply.response.candidates

\* the reply is a response whose first candidate has at least one part
ReplyHasParts ==
    /\ rawReply.kind = "response"
    /\ ReplyCandidate # <<>>
    /\ ReplyCandidate[1].content.present
    /\ ReplyCandidate[1].content.hasParts
    /\ Len(ReplyCandidate[1].content.parts) > 0

ReplyPartsSeq == ReplyCandidate[1].content.parts

CarriesImage(part) == part.inlineData # NoInline
CarriesText(part) == part.text.t = "string" /\ part.text.v # <<>>

ReplyBlocked ==
    /\ rawReply.kind = "response"
    /\ ReplyCandidate # <<>>
    /\ ReplyCandidate[1].safetyRatings.present
    /\ \E i \in 1..Len(ReplyCandidate[1].safetyRatings.blocked) :
         ReplyCandidate[1].safetyRatings.blocked[i]

\* C7: when some part of the first candidate carries inline image data, at
\* whatever position, the call succeeds with data:<mimeType>;base64,<data>
\* of the first such part in sequence order.
C7_FirstImageWins ==
    (interp.done /\ ReplyHasParts
        /\ \E i \in 1..Len(ReplyPartsSeq) : CarriesImage(ReplyPartsSeq[i]))
    => LET k == CHOOSE i \in 1..Len(ReplyPartsSeq) :
                    /\ CarriesImage(ReplyPartsSeq[i])
                    /\ \A j \in 1..(i - 1) : ~CarriesImage(ReplyPartsSeq[j])
           blob == ReplyPartsSeq[k].inlineData[1]
       IN  /\ interp.outcome = "Success"
           /\ interp.res = [tag |-> "ok",
                            value |-> <<"data:">> \o blob.mimeType \o <<";base64,">> \o blob.data]

\* a text part, then two different images: the first image is returned
C7_Witness ==
    /\ interp.done
    /\ ReplyHasParts
    /\ ReplyPartsSeq = <<TextPartOf(<<"t1">>), ImagePartOf(<<"image/png">>, <<"d1">>),
                         ImagePartOf(<<"image/jpeg">>, <<"d2">>)>>
    /\ interp.res.tag = "ok"

\* the outcome the ordered rules give the reply under interpretation
ExpectedOutcome ==
    IF ~ReplyHasParts THEN "Malformed"
    ELSE IF \E i \in 1..Len(ReplyPartsSeq) : CarriesImage(ReplyPartsSeq[i]) THEN "Success"
    ELSE IF CarriesText(ReplyPartsSeq[1]) THEN "Refusal"
    ELSE "Malformed"

\* C8: every response gets exactly one of Success, Refusal, Malformed, by
\* the rules in order: no candidate or no parts is Malformed; else any
\* image part is Success; else a first part with (non-empty) text is
\* Refusal; else Malformed.  Only Success returns a value.
C8_InterpretTotalOrdered ==
    (interp.done /\ rawReply.kind = "response")
    => /\ interp.outcome \in {"Success", "Refusal", "Malformed"}
       /\ interp.outcome = ExpectedOutcome
       /\ (interp.res.tag = "ok") <=> (interp.outcome = "Success")

\* no image, and text only in the second part: Malformed
C8_Witness ==
    /\ interp.done
    /\ ReplyHasParts
    /\ ReplyPartsSeq = <<OtherPart, TextPartOf(<<"t2">>)>>
    /\ interp.outcome = "Malformed"

SaysBlocked(msg) ==
    \/ Includes(msg, MsgBlockedBySafety)
    \/ Includes(msg, <<". The prompt may have been blocked.">>)

\* C9 as claimed: with a blocked safety rating on the candidate, the error
\* of a Malformed or Refusal attempt mentions the block.
C9_BlockAlwaysMentioned ==
    (interp.done /\ ReplyBlocked /\ interp.outcome \in {"Malformed", "Refusal"})
    => SaysBlocked(interp.res.value)

\* C9 amended: with a blocked rating, the error mentions the block when the
\* attempt is Malformed for want of content or parts (the safety-filter
\* sentence, present only with a blocked rating) and when it is Refusal
\* (the fixed refusal message); Malformed from a non-empty part list
\* mentions no block; Malformed for want of content or parts carries the
\* finish reason when the candidate has one.
C9_BlockMentionedWhereBuilt ==
    (interp.done /\ rawReply.kind = "response")
    => /\ (interp.outcome = "Refusal") => SaysBlocked(interp.res.value)
       /\ (interp.outcome = "Malformed" /\ ~ReplyHasParts)
            => /\ Includes(interp.res.value, MsgBlockedBySafety) <=> ReplyBlocked
               /\ (ReplyCandidate # <<>> /\ Truthy(ReplyCandidate[1].finishReason))
                    => Includes(interp.res.value,
                                <<" Reason: ">> \o ReplyCandidate[1].finishReason.v \o <<".">>)
       /\ (interp.outcome = "Malformed" /\ ReplyHasParts) => ~SaysBlocked(interp.res.value)

\* a candidate without parts, finish reason SAFETY, a blocked rating
C9_Witness ==
    /\ interp.done
    /\ ReplyBlocked
    /\ ~ReplyHasParts
    /\ ReplyCandidate[1].finishReason = JsStr(<<"SAFETY">>)
    /\ interp.outcome = "Malformed"

\* the reply with the text of its first part replaced by t
WithFirstText(reply, t) ==
    [reply EXCEPT !.response.candidates[1].content.parts[1].text = JsStr(t)]

\* C10 as claimed: two refused replies that differ in the text of their
\* first part give different errors.
C10_RefusalCarriesText ==
    (interp.done /\ interp.outcome = "Refusal")
    => \A t \in Texts \ {<<>>, ReplyPartsSeq[1].text.v} :
         FinishCall(WithFirstText(rawReply, t), actionLabel) # interp.res

\* C10 amended: a Refusal carries none of the response's text; every
\* refused reply gives the same fixed error, "Model responded with text
\* instead of an image. The prompt may have been blocked.", whatever the
\* text of its first part.
C10_RefusalIsFixedMessage ==
    (interp.done /\ interp.outcome = "Refusal")
    => /\ interp.res = [tag |-> "err", value |-> MsgRefusal]
       /\ \A t \in Texts \ {<<>>} :
            FinishCall(WithFirstText(rawReply, t), actionLabel) = interp.res

\* a reply whose only part is the text t1, refused
C10_Witness ==
    /\ interp.done
    /\ ReplyHasParts
    /\ ReplyPartsSeq = <<TextPartOf(<<"t1">>)>>
    /\ interp.outcome = "Refusal"

----------------------------------------------------------------------------
(* The retry of a refused request (Spec, SpecDecade)                       *)

EditingOps == FileKinds \cup {"fusion", "decade"}
FallbackOps == PrefixKinds \cup {"decade"}
SingleShotOps == {"retouch", "bgremove", "fusion", "imagen", "suggest"}

SentCalls == {i \in 1..Len(calls) : calls[i].sent}

\* C1: an editing operation sends at most two requests, and a second one
\* only when the response to the first was interpreted as Refusal and the
\* operation has a fallback.
C1_SecondCallOnlyAfterRefusal ==
    op \in EditingOps
    => /\ Cardinality(SentCalls) <= 2
       /\ (Len(calls) >= 2 /\ calls[2].sent)
            => (replies[1].outcome = "Refusal" /\ op \in FallbackOps)

\* C2: when the first request of an operation with a fallback is rejected
\* with an exception, whatever its message, the operation ends with the
\* error the call made of it and makes no second call.
C2_ExceptionNeverRetried ==
    (op \in FallbackOps /\ Len(replies) >= 1 /\ replies[1].outcome = "Exception")
    => /\ Len(calls) = 1
       /\ pc = "done"
       /\ result = <<replies[1].res>>

\* C3: the outcome of the fallback attempt is the operation's result:
\* Success returns its data URL, anything else ends the operation with
\* that attempt's error, a Refusal with the "Model responded with text
\* instead of an image" error; there is never a third call.
C3_FallbackOutcomeIsFinal ==
    /\ Len(calls) <= 2
    /\ (Len(calls) = 2 /\ Len(replies) = 2)
         => /\ pc = "done"
            /\ result = <<replies[2].res>>
            /\ (replies[2].outcome = "Success") <=> (result[1].tag = "ok")
            /\ (replies[2].outcome = "Refusal")
                 => result[1] = [tag |-> "err", value |-> MsgRefusal]

\* the fallback request was refused too
C3_Witness ==
    /\ pc = "done"
    /\ Len(calls) = 2
    /\ calls[2].sent
    /\ Len(replies) = 2
    /\ replies[1].outcome = "Refusal"
    /\ replies[2].outcome = "Refusal"

\* C4: the fallback request of filter, style, adjustment and texture is the
\* image part of the first request, unchanged, and one text part that is
\* the user's prompt without the instruction prefix of the first request.
C4_FallbackIsImageAndRawPrompt ==
    (op \in PrefixKinds /\ Len(calls) = 2)
    => /\ Len(calls[1].parts) = 2
       /\ Len(calls[2].parts) = 2
       /\ CarriesImage(calls[1].parts[1])
       /\ calls[2].parts[1] = calls[1].parts[1]
       /\ calls[2].parts[1] = imagePart[1]
       /\ calls[2].parts[2] = [inlineData |-> NoInline, text |-> JsStr(prompt)]
       /\ calls[1].parts[2].text.v # prompt
       /\ Tail(calls[1].parts[2].text.v) = prompt

\* a texture request on a re-encoded image was refused and sent again
C4_Witness ==
    /\ op = "texture"
    /\ Len(calls) = 2
    /\ calls[2].sent
    /\ replies[1].outcome = "Refusal"
    /\ imagePart[1].inlineData[1].mimeType = PngType
    /\ imageFile[1].type = <<"image/webp">>

\* C5: point edit, background removal, fusion, text-to-image and suggestion
\* generation make at most one call, whatever the reply.
C5_SingleShotOpsNeverRetry ==
    op \in SingleShotOps => Len(calls) <= 1

\* a background removal ended on a text-only reply after its one call
C5_Witness ==
    /\ op = "bgremove"
    /\ pc = "done"
    /\ Len(calls) = 1
    /\ Len(replies) = 1
    /\ replies[1].outcome = "Refusal"

IsDecadeAt(p, i) ==
    /\ i >= 1
    /\ i + 4 <= Len(p)
    /\ \A k \in i..(i + 3) : p[k] \in {"0", "1", "2", "3", "4", "5", "6", "7", "8", "9"}
    /\ p[i + 4] = "s"

DecadeStarts(p) == {i \in 1..Len(p) : IsDecadeAt(p, i)}

FirstDecade(p) ==
    LET i == CHOOSE i \in DecadeStarts(p) : \A j \in DecadeStarts(p) : i <= j
    IN  SubSeq(p, i, i + 4)

\* C6: after a refused first request, the decade transform makes a second
\* call exactly when the prompt holds four digits followed by "s"; the text
\* of that call is the fixed template around the first such token; with no
\* token the operation ends with the first call's refusal error.
C6_DecadeFallbackIffToken ==
    (op = "decade" /\ Len(replies) >= 1 /\ replies[1].outcome = "Refusal")
    => /\ (Len(calls) = 2) <=> (DecadeStarts(prompt) # {})
       /\ (Len(calls) = 2)
            => /\ calls[2].parts =
                    <<calls[1].parts[1],
                      [inlineData |-> NoInline,
                       text |-> JsStr(FallbackHead \o FirstDecade(prompt) \o FallbackTail)]>>
               /\ CarriesImage(calls[1].parts[1])
       /\ (DecadeStarts(prompt) = {})
            => /\ Len(calls) = 1
               /\ pc = "done"
               /\ result = <<replies[1].res>>
               /\ result[1] = [tag |-> "err", value |-> MsgRefusal]

\* a prompt with two different decades was refused; the fallback went out
C6_Witness ==
    /\ op = "decade"
    /\ prompt = <<"1", "2", "1", "2", "s", "2", "1", "2", "1", "s">>
    /\ Len(calls) = 2
    /\ calls[2].sent
    /\ replies[1].outcome = "Refusal"

----------------------------------------------------------------------------
(* Error classification (SpecClassify)                                     *)

RawMessage == MessageOf(rawReply.thrown)

\* C11: a raw error whose message is {"error":{"message":"API key not
\* valid"}} is classified as an invalid credential: the result is the
\* invalid-key message, for every action label.
C11_JsonKeyErrorIsInvalidCredential ==
    (interp.done /\ RawMessage = <<JsonErrOpen, "API key not valid", JsonErrClose>>)
    => interp.res = [tag |-> "err", value |-> MsgKeyInvalid]

\* the raw message is JSON with a nested error.message field
HasNestedMessage(m) ==
    /\ Len(m) >= 2
    /\ m[1] = JsonErrOpen
    /\ m[Len(m)] = JsonErrClose
    /\ \A i \in 2..(Len(m) - 1) :
         m[i] \notin {JsonErrOpen, JsonErrClose, JsonMsgOpen, JsonMsgClose}

\* C12: a raw error whose message is not JSON with a nested error.message
\* (JSON of another shape included) is classified by its raw message: with
\* "API key not valid" in it the invalid-key message, else with "xhr error"
\* in it the network message, else an Unknown message that holds the raw
\* message.
C12_PatternMatchWithoutNestedMessage ==
    (interp.done /\ ~HasNestedMessage(RawMessage))
    => IF Includes(RawMessage, <<"API key not valid">>)
       THEN interp.res = [tag |-> "err", value |-> MsgKeyInvalid]
       ELSE IF Includes(RawMessage, <<"xhr error">>)
       THEN interp.res = [tag |-> "err", value |-> MsgNetwork]
       ELSE /\ interp.res.tag = "err"
            /\ interp.res.value \notin {MsgKeyInvalid, MsgNetwork}
            /\ Includes(interp.res.value, RawMessage)

----------------------------------------------------------------------------
(* The action label in terminal errors (Spec)                              *)

\* the labels the operation in flight passes to the classifier
OpLabels ==
    IF op \in FileKinds
    THEN {ActionOf(op, prompt)}
            \cup (IF op \in PrefixKinds THEN {FallbackAction(op, prompt)} ELSE {})
    ELSE IF op = "decade"
    THEN {ActionOf(op, prompt)}
            \cup (IF DecadeStarts(prompt) # {} THEN {FallbackAction(op, prompt)} ELSE {})
    ELSE IF op = "fusion" THEN {<<"fusion">>}
    ELSE IF op = "imagen" THEN {<<"generate image">>}
    ELSE IF op = "suggest" THEN {<<"get inspiration">>}
    ELSE {}

EndedInError == pc = "done" /\ result # <<>> /\ result[1].tag = "err"

\* the message is Error occurred during "<label>": ... for a label of the
\* operation
Labelled(msg) ==
    \E l \in OpLabels :
        /\ Len(msg) >= Len(l) + 2
        /\ SubSeq(msg, 1, Len(l) + 2) = <<"Error occurred during \"">> \o l \o <<"\": ">>

\* C13 as claimed: every error an operation ends with embeds the label of
\* the action being attempted.
C13_EveryErrorNamesAction ==
    EndedInError => \E l \in OpLabels : Includes(result[1].value, l)

\* the operation ended before any call although it has an image to prepare
\* or a data URL to match outside every handler
EndedInPreparation == op \in FileKinds \cup {"decade"} /\ calls = <<>>

\* the operation ended on the reply to its last call, without wrapping
EndedOnReply ==
    /\ op \in EditingOps \ {"fusion"}
    /\ Len(calls) >= 1
    /\ Len(replies) = Len(calls)
    /\ result = <<replies[Len(replies)].res>>

\* C13 amended: an error an operation ends with embeds the action label,
\* as Error occurred during "<label>": ..., exactly when the classifier
\* built it on its generic path.  The invalid-key and the network message
\* carry no label; the refusal and missing-content errors of an editing
\* call are rethrown as they are (only fusion wraps them, under "fusion");
\* a failure to prepare the image in point edit, filter, style, adjustment,
\* texture and background removal, and a bad data URL in the decade
\* transform, reach the caller as they were thrown, without a label.
C13_LabelOnlyFromClassifier ==
    EndedInError
    => LET msg == result[1].value
           fixed == msg \in {MsgKeyInvalid, MsgNetwork}
           asThrown ==
               /\ EndedOnReply
               /\ msg # <<>>
               /\ msg[1] \in {ModelRespondedWithText, DidNotReturnValid}
       IN  /\ Labelled(msg) <=> ~(fixed \/ asThrown \/ EndedInPreparation)
           /\ (EndedOnReply /\ replies[Len(replies)].outcome = "Refusal")
                => msg = MsgRefusal
           /\ (EndedOnReply /\ replies[Len(replies)].outcome = "Malformed")
                => (asThrown \/ Labelled(msg))
           /\ (op \in {"fusion", "imagen", "suggest"}) => (Labelled(msg) \/ fixed)

\* a style request ended on a transport failure, labelled "apply style"
C13_Witness ==
    /\ op = "style"
    /\ pc = "done"
    /\ result = <<[tag |-> "err",
                   value |-> <<"Error occurred during \"", "apply style", "\": ",
                               "socket hang up">>]>>

----------------------------------------------------------------------------
(* Every operation ends with one outcome (SpecLive)                        *)

Pending == pc \in {"prep", "prepSources", "await"}

\* C14: when every image step and every request settles, a started
\* operation ends, and ends with exactly one outcome for its caller, a
\* data URL or an error: nothing is handed over while a step is pending,
\* and no failure leaves the operation pending or ends it empty-handed.
C14_EveryOperationEnds ==
    /\ [](Pending => result = <<>>)
    /\ [](pc = "done"
            => /\ Len(result) = 1
               /\ result[1].tag \in {"ok", "err"}
               /\ (result[1].tag = "ok" /\ op \in EditingOps)
                    => result[1].value[1] = "data:")
    /\ (Pending ~> (pc = "done" /\ Len(result) = 1))

\* a fusion ended with an error because one of its source images failed to
\* load while another was still being prepared
C14_Witness ==
    /\ op = "fusion"
    /\ pc = "done"
    /\ Len(srcFiles) = 2
    /\ \E i \in 1..2 : srcParts[i] = <<>>
    /\ calls = <<>>
    /\ result # <<>>
    /\ result[1].tag = "err"

----------------------------------------------------------------------------
(* Credential resolution (SpecConfig)                                      *)

\* a stored setting that is absent, empty or all spaces
Blank(x) == x.t # "string" \/ \A i \in 1..Len(x.v) : x.v[i] = " "

\* neither a non-blank stored key nor an environment default
NoCredential == Blank(lsApiKey) /\ (envApiKey.t # "string" \/ envApiKey.v = <<>>)

\* this step is a call of getGoogleAI
AttemptStep == lastAttempt'.n # lastAttempt.n

\* C15: with no credential from either source, an invocation attempt fails
\* with an error before any request is sent, and leaves the cached handle
\* and its cached key and endpoint as they were.
C15_NoCredentialFailsFast ==
    [][(NoCredential /\ AttemptStep)
        => /\ lastAttempt'.outcome = "nokey"
           /\ \A c \in Callers :
                callers'[c].pc \in {"held", "await1", "await"} => callers'[c] = callers[c]
           /\ aiInstance' = aiInstance
           /\ lastUsedApiKey' = lastUsedApiKey
           /\ lastUsedBaseUrl' = lastUsedBaseUrl]_vars

\* an attempt failed for want of a key while a handle built earlier is
\* still cached
C15_Witness ==
    /\ NoCredential
    /\ lsApiKey = [t |-> "string", v |-> <<" ", " ">>]
    /\ lastAttempt.outcome = "nokey"
    /\ aiInstance.made
    /\ lastUsedApiKey = [t |-> "string", v |-> <<"k">>]

\* the credential and the endpoint the layered sources give
ExpectedCredential == IF ~Blank(lsApiKey) THEN lsApiKey ELSE envApiKey
ExpectedEndpoint ==
    IF Blank(lsBaseUrl) THEN [t |-> "undefined", v |-> <<>>]
    ELSE [t |-> "string", v |-> SelectSeq(lsBaseUrl.v, LAMBDA ch : ch # " ")]

\* C20: the credential is the stored override when that is present and not
\* blank (empty or all whitespace), as stored; otherwise the environment
\* default; the endpoint is the stored override, trimmed, when that is not
\* blank, otherwise the default endpoint.  Every handle an attempt returns
\* is one for that credential and endpoint, and an attempt finds no
\* credential exactly when both sources are empty.
C20_LayeredCredential ==
    [][AttemptStep
        => /\ (lastAttempt'.outcome = "nokey") <=> NoCredential
           /\ \A c \in Callers :
                (callers'[c] # callers[c] /\ lastAttempt'.outcome \in {"built", "reused"})
                => callers'[c].ai = [made |-> TRUE, apiKey |-> ExpectedCredential,
                                     apiEndpoint |-> ExpectedEndpoint]]_vars

\* a blank stored key, an environment default and an endpoint stored with
\* spaces around it: the handle is built for "e" and "u"
C20_Witness ==
    /\ lsApiKey = [t |-> "string", v |-> <<" ">>]
    /\ envApiKey = [t |-> "string", v |-> <<"e">>]
    /\ lsBaseUrl = [t |-> "string", v |-> <<" ", "u", " ">>]
    /\ lastAttempt.outcome = "built"
    /\ aiInstance = [made |-> TRUE, apiKey |-> [t |-> "string", v |-> <<"e">>],
                     apiEndpoint |-> [t |-> "string", v |-> <<"u">>]]

----------------------------------------------------------------------------
(* The cached client under concurrent operations (SpecClient)              *)

ExpectedHandle ==
    [made |-> TRUE, apiKey |-> ExpectedCredential, apiEndpoint |-> ExpectedEndpoint]

\* no handle is cached, or the credential and endpoint now in force differ
\* from the pair recorded with the cached handle
Stale ==
    \/ ~aiInstance.made
    \/ ExpectedCredential # lastUsedApiKey
    \/ ExpectedEndpoint # lastUsedBaseUrl

\* C16: an attempt (with a credential in force) invokes the constructor
\* exactly when no handle is cached or the pair in force differs from the
\* pair recorded at the last successful construction; otherwise it returns
\* the cached handle and leaves the cache alone, so that operations under
\* one configuration, one after another or interleaved, share the one
\* handle built for it; no handle is built while one for the same pair is
\* cached.
C16_BuiltIffStale ==
    [][(AttemptStep /\ ~NoCredential)
        => /\ (lastAttempt'.outcome \in {"built", "ctorfail"}) <=> Stale
           /\ (~Stale)
                => /\ lastAttempt'.outcome = "reused"
                   /\ aiInstance' = aiInstance
                   /\ lastUsedApiKey' = lastUsedApiKey
                   /\ lastUsedBaseUrl' = lastUsedBaseUrl
                   /\ \A c \in Callers :
                        callers'[c] # callers[c] => callers'[c].ai = aiInstance
           /\ (lastAttempt'.outcome = "built") => aiInstance # ExpectedHandle]_vars

\* two operations in flight on the one cached handle, the later one having
\* found it in the cache
C16_Witness ==
    /\ callers[1].pc = "await1"
    /\ callers[2].pc = "await1"
    /\ callers[1].ai = aiInstance
    /\ callers[2].ai = aiInstance
    /\ aiInstance.made
    /\ lastAttempt.outcome = "reused"

\* C17: when the constructor throws, the attempt ends in an error and the
\* cached handle, key and endpoint are all cleared; the attempt that
\* follows a failed construction never returns a cached handle: with a
\* credential in force it invokes the constructor again, whatever the
\* configuration.
C17_FailedConstructionClearsCache ==
    [][AttemptStep
        => /\ (lastAttempt'.outcome = "ctorfail")
                => /\ aiInstance' = [made |-> FALSE, apiKey |-> [t |-> "null", v |-> <<>>],
                                      apiEndpoint |-> [t |-> "undefined", v |-> <<>>]]
                   /\ lastUsedApiKey' = [t |-> "null", v |-> <<>>]
                   /\ lastUsedBaseUrl' = [t |-> "null", v |-> <<>>]
                   /\ \A c \in Callers :
                        callers'[c] # callers[c] => callers'[c].pc = "idle"
           /\ (lastAttempt.outcome = "ctorfail")
                => /\ lastAttempt'.outcome # "reused"
                   /\ (~NoCredential) => (lastAttempt'.outcome \in {"built", "ctorfail"})]_vars

\* the constructor threw on a changed configuration while a request sent
\* on the earlier handle is still pending: the cache is empty
C17_Witness ==
    /\ lastAttempt.outcome = "ctorfail"
    /\ ~aiInstance.made
    /\ lastUsedApiKey = [t |-> "null", v |-> <<>>]
    /\ \E c \in Callers : callers[c].pc = "await" /\ callers[c].ai.made

\* caller c issues a request in this step
Sends(c) == callers'[c].pc \in {"await1", "await"} /\ callers'[c].pc # callers[c].pc

\* C18: every request (first attempt, fallback attempt, text-to-image,
\* suggestions) is issued on a handle for the credential and endpoint in
\* force at the moment it is issued.
C18_RequestUsesCurrentConfig ==
    [][\A c \in Callers : Sends(c) => callers'[c].ai = ExpectedHandle]_vars

\* C19: at every await the cache is whole: a cached handle is the one
\* built for the recorded key and endpoint, and without a handle nothing is
\* recorded; only a constructor call changes the cache, a successful one
\* leaving its own handle there, so that after racing reconstructions the
\* cache holds the handle built last.
C19_CacheConsistent ==
    /\ [](IF aiInstance.made
           THEN aiInstance = [made |-> TRUE, apiKey |-> lastUsedApiKey,
                              apiEndpoint |-> lastUsedBaseUrl]
           ELSE lastUsedApiKey.t = "null" /\ lastUsedBaseUrl.t = "null")
    /\ [][/\ (AttemptStep /\ lastAttempt'.outcome = "built")
                => /\ aiInstance' = ExpectedHandle
                   /\ \A c \in Callers :
                        callers'[c] # callers[c] => callers'[c].ai = aiInstance'
          /\ ~(AttemptStep /\ lastAttempt'.outcome \in {"built", "ctorfail"})
                => /\ aiInstance' = aiInstance
                   /\ lastUsedApiKey' = lastUsedApiKey
                   /\ lastUsedBaseUrl' = lastUsedBaseUrl]_vars

\* two operations in flight on handles of different configurations; the
\* cache holds the one built last
C19_Witness ==
    /\ callers[1].pc = "await1"
    /\ callers[2].pc = "await1"
    /\ callers[1].ai.made
    /\ callers[2].ai.made
    /\ callers[1].ai # callers[2].ai
    /\ aiInstance = callers[2].ai
    /\ lastAttempt.outcome = "built"

----------------------------------------------------------------------------
(* resizeImageForApi on every image: declared type, width and height, and   *)
(* every way the host can fail                                             *)

MaxScale == 2

\* widths and heights: small ones, ones inside the limit, and the
\* multiples of the limit with their neighbours
Dimensions ==
    {1, 2, 3, 1024, 1365}
        \cup {k * MAX_DIMENSION + d : k \in 1..MaxScale, d \in {-1, 0, 1}}

DeclaredTypes == {<<"image/jpeg">>, <<"image/png">>, <<"image/webp">>}

NormFiles ==
    {FileOf("n", t, w, h) : t \in DeclaredTypes, w \in Dimensions, h \in Dimensions}

InitNormalize ==
    /\ aiInstance = NoInstance
    /\ lastUsedApiKey = JsNull
    /\ lastUsedBaseUrl = JsNull
    /\ lsApiKey = JsStr(<<"k">>)
    /\ lsBaseUrl = JsNull
    /\ envApiKey = JsUndefined
    /\ IdleOp
    /\ IdleClients
    /\ IdlePanel
    /\ IdleInterp
    /\ norm \in {[file |-> f, host |-> h, done |-> FALSE, out |-> Resolved(NoFile)] :
                    f \in NormFiles, h \in HostOutcomes}

\* resizeImageForApi settles (lines 96-168)
Normalize ==
    /\ ~norm.done
    /\ norm.file # NoFile
    /\ norm' = [norm EXCEPT !.done = TRUE, !.out = resizeImageForApi(norm.file, norm.host)]
    /\ UNCHANGED <<cacheVars, configVars, opVars, interpVars, clientVars, panelVars>>

NextNormalize == Normalize

SpecNormalize == InitNormalize /\ [][NextNormalize]_vars

----------------------------------------------------------------------------
(* Claims about normalization, checked under SpecNormalize                 *)

Supported(f) == f.type \in SUPPORTED_MIME_TYPES
WithinBound(f) == f.width <= MAX_DIMENSION /\ f.height <= MAX_DIMENSION
\* the host could read the file and decode the image
Decoded == norm.host.read = "ok" /\ norm.host.load

\* C21: an image that is declared image/jpeg or image/png and is at most
\* 2048 wide and 2048 high comes back as the input file itself, with its
\* declared type, without being drawn on a canvas
C21_SupportedWithinBoundIsUntouched ==
    (norm.done /\ Decoded /\ Supported(norm.file) /\ WithinBound(norm.file))
        => /\ norm.out.ok
           /\ norm.out.file = norm.file
           /\ norm.out.mimeType = norm.file.type
           /\ norm.out.canvas = <<>>

\* a 2048 by 2047 JPEG came back untouched on a host without a 2d context
C21_Witness ==
    /\ norm.done
    /\ norm.file.type = <<"image/jpeg">>
    /\ norm.file.width = MAX_DIMENSION
    /\ norm.file.height = MAX_DIMENSION - 1
    /\ ~norm.host.ctx
    /\ norm.out.ok
    /\ norm.out.file = norm.file

NeedsResize(f) == f.width > MAX_DIMENSION \/ f.height > MAX_DIMENSION
Longer(f) == IF f.width > f.height THEN f.width ELSE f.height
Shorter(f) == IF f.width > f.height THEN f.height ELSE f.width

\* s is a nearest integer to short * 2048 / long
NearestScaled(s, short, long) ==
    /\ 2 * (s * long - short * MAX_DIMENSION) <= long
    /\ 2 * (short * MAX_DIMENSION - s * long) <= long

\* C22: an image with a side above 2048 is drawn with the side that was
\* longer at exactly 2048 and the other side at the original shorter side
\* times 2048 / max(width, height), rounded to the nearest integer; a square
\* one is drawn at 2048 by 2048; the file that comes back has that size
C22_LongerSideIs2048 ==
    (norm.done /\ norm.out.canvas # <<>> /\ NeedsResize(norm.file))
        => LET f == norm.file
               size == norm.out.canvas[1]
               newLong == IF f.width > f.height THEN size.width ELSE size.height
               newShort == IF f.width > f.height THEN size.height ELSE size.width
           IN  /\ newLong = MAX_DIMENSION
               /\ NearestScaled(newShort, Shorter(f), Longer(f))
               /\ newShort <= MAX_DIMENSION
               /\ (f.width = f.height
                     => size.width = MAX_DIMENSION /\ size.height = MAX_DIMENSION)
               /\ (norm.out.ok
                     => /\ norm.out.file.width = size.width
                        /\ norm.out.file.height = size.height)

\* a 1365 by 4097 image came back 682 by 2048
C22_Witness ==
    /\ norm.done
    /\ norm.out.ok
    /\ norm.file.width = 1365
    /\ norm.file.height = 2 * MAX_DIMENSION + 1
    /\ norm.out.file.width = 682
    /\ norm.out.file.height = MAX_DIMENSION

\* C23: when the declared type is unsupported or a side is above 2048, the
\* image that comes back is image/png, an oversize image/jpeg included, and
\* it keeps its size when no side was above 2048
C23_ReencodedIsPng ==
    (norm.done /\ norm.out.ok /\ (~Supported(norm.file) \/ NeedsResize(norm.file)))
        => /\ norm.out.mimeType = PngType
           /\ norm.out.file.type = PngType
           /\ norm.out.file # norm.file
           /\ (~NeedsResize(norm.file)
                 => /\ norm.out.file.width = norm.file.width
                    /\ norm.out.file.height = norm.file.height)

\* an oversize JPEG came back as a PNG
C23_Witness ==
    /\ norm.done
    /\ norm.out.ok
    /\ norm.file.type = <<"image/jpeg">>
    /\ norm.file.width = MAX_DIMENSION + 1
    /\ norm.out.mimeType = PngType

\* C28: the canvas the image is drawn on is at least 1 wide and 1 high
C28_CanvasNeverEmpty ==
    (norm.done /\ norm.out.canvas # <<>>)
        => /\ norm.out.canvas[1].width >= 1
           /\ norm.out.canvas[1].height >= 1

----------------------------------------------------------------------------
(* Claims about the images in a request, checked under Spec                *)

\* what fileToGenerativePart makes of the files an operation can be given,
\* where the normalized file is image/jpeg or image/png and at most 2048
\* on its longer side
NormalizedImages ==
    {fileToGenerativePart(f, HostOk).part.inlineData : f \in
        {g \in Files :
            LET r == resizeImageForApi(g, HostOk)
            IN  r.ok /\ Supported(r.file) /\ WithinBound(r.file)}}

\* C24: every inline image in a request that was sent is image/jpeg or
\* image/png and is the encoding of a normalized file
C24_SentImagesAreNormalized ==
    \A i \in SentCalls :
        \A j \in 1..Len(calls[i].parts) :
            LET image == calls[i].parts[j].inlineData
            IN  image # NoInline
                  => /\ image[1].mimeType \in SUPPORTED_MIME_TYPES
                     /\ image \in NormalizedImages

\* the operation is past its preparation although an image of its input
\* has no part: the main image, or a source image of a fusion
PrepFailed ==
    /\ pc \notin {"idle", "prep", "prepSources"}
    /\ \/ op \in FileKinds \cup {"fusion"} /\ imagePart = <<>>
       \/ op = "suggest" /\ heldAi.made /\ imagePart = <<>>
       \/ op = "fusion" /\ \E i \in 1..Len(srcParts) : srcParts[i] = <<>>

\* C25: an operation one of whose images could not be normalized or encoded
\* has ended in an error without sending any request
C25_PrepFailureEndsWithoutCall ==
    PrepFailed
        => /\ pc = "done"
           /\ calls = <<>>
           /\ replies = <<>>
           /\ Len(result) = 1
           /\ result[1].tag = "err"

\* a fusion ended on its second source image after the main image and the
\* first source image were prepared
C25_Witness ==
    /\ pc = "done"
    /\ op = "fusion"
    /\ Len(srcFiles) = 2
    /\ imagePart # <<>>
    /\ srcParts[1] # <<>>
    /\ srcParts[2] = <<>>
    /\ calls = <<>>
    /\ result # <<>>
    /\ result[1].tag = "err"

----------------------------------------------------------------------------
(* Claims about fusion, checked under Spec                                 *)

\* the inline image fileToGenerativePart makes of f when nothing fails
EncodedImage(f) == fileToGenerativePart(f, HostOk).part.inlineData

\* C26: whatever the order in which the source images settled, the request
\* of a fusion of a main image and n source images is the main image, the
\* source images in the order of the input list, then one text part, and
\* the text names the source images 1, 2, ..., n in that order
C26_FusionPartsInInputOrder ==
    (op = "fusion" /\ calls # <<>> /\ calls[1].sent)
        => LET n == Len(srcFiles)
               parts == calls[1].parts
               text == parts[n + 2].text.v
           IN  /\ Len(calls) = 1
               /\ Len(parts) = n + 2
               /\ parts[1].inlineData = EncodedImage(imageFile[1])
               /\ \A k \in 1..n :
                    /\ parts[k + 1].inlineData = EncodedImage(srcFiles[k])
                    /\ parts[k + 1].text = JsUndefined
               /\ parts[n + 2].inlineData = NoInline
               /\ parts[n + 2].text.t = "string"
               /\ Len(text) = 3 * n + 2 + Len(prompt)
               /\ \A k \in 1..n :
                    /\ text[3 * k - 1] = "Source image "
                    /\ text[3 * k] = ToString(k)
                    /\ text[3 * k + 1] = " is provided. "
               /\ text[3 * n + 2] = "Instructions: "
               /\ SubSeq(text, 3 * n + 3, Len(text)) = prompt

\* a fusion of two different source images was sent
C26_Witness ==
    /\ op = "fusion"
    /\ Len(srcFiles) = 2
    /\ srcFiles[1] # srcFiles[2]
    /\ calls # <<>>
    /\ calls[1].sent
    /\ Len(calls[1].parts) = 4
    /\ calls[1].parts[3].inlineData = EncodedImage(srcFiles[2])

\* C27: the error a fusion ends with is the error its one call ended with,
\* classified once, not wrapped or classified again
C27_FusionErrorPropagatesDirectly ==
    (op = "fusion" /\ pc = "done" /\ replies # <<>>
        /\ replies[Len(replies)].res.tag = "err")
        => result = <<replies[Len(replies)].res>>

----------------------------------------------------------------------------
(* The fusion panel (FusionPanel) in front of generateFusedImage           *)

MAX_FILE_SIZE_MB == 12
MAX_FILE_SIZE_BYTES == MAX_FILE_SIZE_MB * 1024 * 1024

MsgFileTooLarge ==
    <<"Source image file size cannot exceed ", ToString(MAX_FILE_SIZE_MB),
      "MB. Please select a smaller file.">>

\* the files of a selection or drop, with their sizes in bytes
SelectedSizes == {MAX_FILE_SIZE_BYTES, MAX_FILE_SIZE_BYTES + 1}
PanelPrompts == {<<>>, <<" ">>, <<"p">>}

\* isLoading: an operation is in flight
IsLoading == pc # "idle"
AnySlotFilled == \E k \in SlotIds : panel.slots[k] # <<>>

\* [a, b, c].filter(Boolean), line 29: the filled slots, in slot order
RECURSIVE FilterFilled(_, _)
FilterFilled(slots, k) ==
    IF k \notin SlotIds THEN <<>>
    ELSE slots[k] \o FilterFilled(slots, k + 1)

\* handleFileSelect of uploader k, lines 55-65, through the file input or a
\* drop
handleFileSelect(k, f, size) ==
    /\ IF size > MAX_FILE_SIZE_BYTES
       THEN panel' = [panel EXCEPT !.error = MsgFileTooLarge]
       ELSE panel' = [panel EXCEPT !.error = <<>>, !.slots[k] = <<f>>]
    /\ panel' # panel
    /\ UNCHANGED <<cacheVars, configVars, opVars, interpVars, clientVars, normVars>>

\* handleClearImage of uploader k, lines 67-72; its button is shown with the
\* image
handleClearImage(k) ==
    /\ panel.slots[k] # <<>>
    /\ panel' = [panel EXCEPT !.slots[k] = <<>>]
    /\ UNCHANGED <<cacheVars, configVars, opVars, interpVars, clientVars, normVars>>

\* the prompt input, lines 120-127
SetPrompt(p) ==
    /\ ~IsLoading
    /\ AnySlotFilled
    /\ p # panel.prompt
    /\ panel' = [panel EXCEPT !.prompt = p]
    /\ UNCHANGED <<cacheVars, configVars, opVars, interpVars, clientVars, normVars>>

\* the Apply Fusion button (lines 128-134) and handleApply (lines 28-33);
\* onApplyFusion(sourceFiles, prompt) starts generateFusedImage on the image
\* being edited
handleApply(main) ==
    LET sourceFiles == FilterFilled(panel.slots, 1)
    IN  /\ ~IsLoading
        /\ Trim(panel.prompt) # <<>>
        /\ AnySlotFilled
        /\ Len(sourceFiles) > 0 /\ Trim(panel.prompt) # <<>>
        /\ panel' = [panel EXCEPT !.applied = panel.slots]
        /\ EnterFusion(main, sourceFiles, panel.prompt)

InitPanel ==
    /\ aiInstance = NoInstance
    /\ lastUsedApiKey = JsNull
    /\ lastUsedBaseUrl = JsNull
    /\ lsApiKey = JsStr(<<"k">>)
    /\ lsBaseUrl = JsNull
    /\ envApiKey = JsUndefined
    /\ IdleOp
    /\ IdleClients
    /\ IdleNorm
    /\ IdlePanel
    /\ IdleInterp

NextPanel ==
    \/ \E k \in SlotIds, f \in Files, size \in SelectedSizes : handleFileSelect(k, f, size)
    \/ \E k \in SlotIds : handleClearImage(k)
    \/ \E p \in PanelPrompts : SetPrompt(p)
    \/ handleApply(LiveFile)
    \/ FusionMainDone
    \/ \E i \in SlotIds : SourcePrepDone(i)
    \/ Reply
    \/ Deliver

SpecPanel == InitPanel /\ [][NextPanel]_vars

----------------------------------------------------------------------------
(* Claims about the fusion panel, checked under SpecPanel                  *)

\* C29: in the request of a fusion applied from the panel, the image the
\* text names Source image k is the file that was in uploader slot k when
\* fusion was applied; and fusion is applied only with a source file and a
\* prompt that is not blank
C29_LabelMatchesSlot ==
    (op = "fusion" /\ calls # <<>> /\ calls[1].sent)
        => LET n == Len(srcFiles)
               parts == calls[1].parts
               text == parts[n + 2].text.v
           IN  /\ n >= 1
               /\ Trim(prompt) # <<>>
               /\ \A k \in 1..n :
                    /\ text[3 * k - 1] = "Source image "
                    /\ text[3 * k] = ToString(k)
                    /\ panel.applied[k] # <<>>
                    /\ parts[k + 1].inlineData = EncodedImage(panel.applied[k][1])

====
